---- MODULE Spec2Model ----
(***************************************************************************)
(* A model of the numerical core of hacking-capital:                       *)
(*   - app/services/technical_indicators.py (indicator library, the four   *)
(*     category analyzers, the composite signal aggregator);               *)
(*   - app/services/portfolio_optimizer.py (portfolio optimization).       *)
(*                                                                         *)
(* Numbers.  Python floats are modelled as fixed-point integers: the real  *)
(* x is the integer x * SC, and every multiplication or division rounds    *)
(* down to a multiple of 1/SC, as a float operation rounds to the nearest  *)
(* representable value.  A division by zero is modelled by what the        *)
(* operands' types make of it in the source: Python floats raise           *)
(* ZeroDivisionError (the "raised" flag of a call), numpy float64 values   *)
(* yield nan or inf, which the model folds into the one value NaN.         *)
(***************************************************************************)
EXTENDS Integers, Sequences, FiniteSets, TLC

VARIABLES
    bars,           \* the OHLCV series handed to the indicator core
    call,           \* the last call made on the series and what it returned
    sig_analysis,   \* analysis results handed to the aggregator: category -> list
    sig_weights,    \* the category weights handed to the aggregator
    sig_composite,  \* what get_weighted_signal returned for them, if called
    portfolio,      \* the Portfolio handed to the optimizer
    opt_result,     \* the last optimizer call on it and the OptimizationResult
    cache,          \* a KnowledgeCache, its Redis backend and the clock
    agent_api,      \* the agent_weights table and the last response of the API
    backtest,       \* a BacktestService.run call: its locals, bar by bar, and its result
    job_manager     \* the BackgroundJobManager's session state and its worker threads

indVars == <<bars, call>>
sigVars == <<sig_analysis, sig_weights, sig_composite>>
optVars == <<portfolio, opt_result>>
cacheVars == <<cache>>
agentVars == <<agent_api>>
btVars == <<backtest>>
jobVars == <<job_manager>>
vars == <<bars, call, sig_analysis, sig_weights, sig_composite, portfolio, opt_result, cache, agent_api, backtest, job_manager>>

-----------------------------------------------------------------------------
(* Bounds of the model *)

\* longest price series
MaxLen == 35

\* a series is a flat history followed by at most MaxTail freely chosen bars
MaxTail == 3

\* the library functions are called directly with periods 1..MaxPeriod,
\* on series of at most MaxLibLen bars
MaxPeriod == 3
MaxLibLen == 5

\* most indicators in the analysis results handed to the aggregator
MaxIndicators == 3

-----------------------------------------------------------------------------
(* Fixed-point arithmetic *)

SC == 10 * 10 * 10

NaN == 0 - (2 * SC * SC * SC)

Num(n) == n * SC

\* n / d as a fixed-point number (n, d plain integers, d # 0)
Frac(n, d) == (n * SC) \div d

FMul(a, b) == (a * b) \div SC

FDiv(a, b) == (a * SC) \div b

Abs(x) == IF x < 0 THEN 0 - x ELSE x

RECURSIVE SqrtSearch(_, _, _)
SqrtSearch(n, lo, hi) ==
    IF lo >= hi THEN lo
    ELSE LET mid == (lo + hi + 1) \div 2
         IN  IF mid * mid <= n THEN SqrtSearch(n, mid, hi)
             ELSE SqrtSearch(n, lo, mid - 1)

ISqrt(n) == SqrtSearch(n, 0, IF n < 46340 THEN n ELSE 46340)

\* sqrt of a fixed-point number: sqrt(x / SC) * SC = sqrt(x * SC)
FSqrt(x) == ISqrt(x * SC)

\* numpy float64 true division: no exception, nan or inf on a zero divisor
NpDiv(a, b) == IF a = NaN \/ b = NaN \/ b = 0 THEN NaN ELSE FDiv(a, b)

\* Python's min(a, b): b replaces a only when b < a, and nan < a is False
PyMin(a, b) == IF a # NaN /\ b # NaN /\ b < a THEN b ELSE a

-----------------------------------------------------------------------------
(* Python list helpers *)

RECURSIVE SeqSum(_)
SeqSum(s) == IF s = <<>> THEN 0 ELSE s[1] + SeqSum(Tail(s))

RECURSIVE SeqMax(_)
SeqMax(s) ==
    IF Len(s) = 1 THEN s[1]
    ELSE LET m == SeqMax(Tail(s)) IN IF s[1] >= m THEN s[1] ELSE m

RECURSIVE SeqMin(_)
SeqMin(s) ==
    IF Len(s) = 1 THEN s[1]
    ELSE LET m == SeqMin(Tail(s)) IN IF s[1] <= m THEN s[1] ELSE m

MinOf(a, b) == IF a <= b THEN a ELSE b

\* s[a:b] for 0 <= a, 0 <= b: the slice is clipped to the list, never an error
PySlice(s, a, b) == SubSeq(s, a + 1, MinOf(b, Len(s)))

\* s[-k:] for k >= 0; s[-0:] is s[0:], the whole list
PyTail(s, k) ==
    IF k = 0 \/ k >= Len(s) THEN s ELSE SubSeq(s, Len(s) - k + 1, Len(s))

\* s[-1], s[-2]
Last(s) == s[Len(s)]
Prev(s) == s[Len(s) - 1]

-----------------------------------------------------------------------------
(* Indicator library *)

simple_moving_average(prices, period) ==
    IF Len(prices) < period THEN <<>>
    ELSE [i \in 1..(Len(prices) - period + 1) |->
              SeqSum(PySlice(prices, i - 1, i - 1 + period)) \div period]

RECURSIVE EmaLoop(_, _, _, _)
EmaLoop(prices, i, ema, multiplier) ==
    IF i > Len(prices) THEN ema
    ELSE EmaLoop(prices, i + 1,
                 Append(ema, FMul(prices[i], multiplier)
                             + FMul(Last(ema), SC - multiplier)),
                 multiplier)

\* a faulty variant: the guard on the number of points is missing
ema_without_length_guard(prices, period) ==
    EmaLoop(prices, period + 1,
            << SeqSum(PySlice(prices, 0, period)) \div period >>,
            Frac(2, period + 1))

exponential_moving_average(prices, period) ==
    IF Len(prices) < period THEN <<>>
    ELSE EmaLoop(prices, period + 1,
                 << SeqSum(PySlice(prices, 0, period)) \div period >>,
                 Frac(2, period + 1))

weighted_moving_average(prices, period) ==
    IF Len(prices) < period THEN <<>>
    ELSE LET weight_sum == SeqSum([w \in 1..period |-> w])
         IN  [i \in 1..(Len(prices) - period + 1) |->
                 SeqSum([w \in 1..period |-> w * prices[i - 1 + w]]) \div weight_sum]

\* zip(a, b) stops at the shorter list
ZipLen(a, b) == MinOf(Len(a), Len(b))

macd(prices, fast_period, slow_period, signal_period) ==
    LET fast0 == exponential_moving_average(prices, fast_period)
        slow0 == exponential_moving_average(prices, slow_period)
        slow_ema == IF Len(fast0) < Len(slow0) THEN PyTail(slow0, Len(fast0)) ELSE slow0
        fast_ema == IF Len(fast0) >= Len(slow0) /\ Len(slow0) < Len(fast0)
                    THEN PyTail(fast0, Len(slow0)) ELSE fast0
        macd_line == [i \in 1..ZipLen(fast_ema, slow_ema) |-> fast_ema[i] - slow_ema[i]]
        signal_line == exponential_moving_average(macd_line, signal_period)
        macd_tail == PyTail(macd_line, Len(signal_line))
        histogram == [i \in 1..ZipLen(macd_tail, signal_line) |->
                          macd_tail[i] - signal_line[i]]
    IN  [macd_line |-> macd_line, signal_line |-> signal_line, histogram |-> histogram]

\* one change inside an RSI window, as the pair <<gain, loss>>
RsiGain(change) == IF change > 0 THEN change ELSE 0
RsiLoss(change) == IF change > 0 THEN 0 ELSE Abs(change)

\* a faulty variant: a window without losses reports the neutral 50 instead of 100
RsiOfWindowNeutralFallback(window, period) ==
    LET n == Len(window) - 1
        gains == [j \in 1..n |-> RsiGain(window[j + 1] - window[j])]
        losses == [j \in 1..n |-> RsiLoss(window[j + 1] - window[j])]
        avg_gain == IF n > 0 THEN SeqSum(gains) \div period ELSE 0
        avg_loss == IF n > 0 THEN SeqSum(losses) \div period ELSE 0
    IN  IF avg_loss = 0 THEN Num(50)
        ELSE Num(100) - FDiv(Num(100), SC + FDiv(avg_gain, avg_loss))

RsiOfWindow(window, period) ==
    LET n == Len(window) - 1
        gains == [j \in 1..n |-> RsiGain(window[j + 1] - window[j])]
        losses == [j \in 1..n |-> RsiLoss(window[j + 1] - window[j])]
        avg_gain == IF n > 0 THEN SeqSum(gains) \div period ELSE 0
        avg_loss == IF n > 0 THEN SeqSum(losses) \div period ELSE 0
    IN  IF avg_loss = 0 THEN Num(100)
        ELSE Num(100) - FDiv(Num(100), SC + FDiv(avg_gain, avg_loss))

rsi(prices, period) ==
    IF Len(prices) < period + 1 THEN <<>>
    ELSE [k \in 1..(Len(prices) - period) |->
              RsiOfWindow(PySlice(prices, k - 1, k + period), period)]

np_std(window) ==
    LET mean == SeqSum(window) \div Len(window)
        sq == [i \in 1..Len(window) |-> FMul(window[i] - mean, window[i] - mean)]
    IN  FSqrt(SeqSum(sq) \div Len(window))

bollinger_bands(prices, period, std_dev) ==
    IF Len(prices) < period
    THEN [sma |-> <<>>, upper_band |-> <<>>, lower_band |-> <<>>]
    ELSE LET sma == simple_moving_average(prices, period)
             std == [i \in 1..Len(sma) |-> np_std(PySlice(prices, i - 1, i - 1 + period))]
         IN  [sma |-> sma,
              upper_band |-> [i \in 1..Len(sma) |-> sma[i] + FMul(std_dev, std[i])],
              lower_band |-> [i \in 1..Len(sma) |-> sma[i] - FMul(std_dev, std[i])]]

\* max(window) / min(window) raise ValueError on an empty window; the value
\* reported for such a window is never used (the call has raised)
WindowMax(w) == IF w = <<>> THEN 0 ELSE SeqMax(w)
WindowMin(w) == IF w = <<>> THEN 0 ELSE SeqMin(w)

\* the 1-based positions i + 1 of "for i in range(period - 1, len(closes))"
WindowEnds(closes, period) == period..Len(closes)

range_raises(highs, lows, closes, period) ==
    /\ Len(closes) >= period
    /\ \E j \in WindowEnds(closes, period) :
          \/ PySlice(highs, j - period, j) = <<>>
          \/ PySlice(lows, j - period, j) = <<>>

StochK(highs, lows, closes, j, k_period) ==
    LET highest_high == WindowMax(PySlice(highs, j - k_period, j))
        lowest_low == WindowMin(PySlice(lows, j - k_period, j))
    IN  IF highest_high = lowest_low THEN Num(50)
        ELSE FDiv(closes[j] - lowest_low, highest_high - lowest_low) * 100

stochastic_oscillator(highs, lows, closes, k_period, d_period) ==
    IF Len(closes) < k_period THEN [k_values |-> <<>>, d_values |-> <<>>]
    ELSE LET k_values == [n \in 1..(Len(closes) - k_period + 1) |->
                              StochK(highs, lows, closes, n + k_period - 1, k_period)]
         IN  [k_values |-> k_values,
              d_values |-> simple_moving_average(k_values, d_period)]

stochastic_raises(highs, lows, closes, k_period) ==
    range_raises(highs, lows, closes, k_period)

CciOfWindow(high_window, low_window, close_window, period) ==
    LET n == MinOf(Len(high_window), MinOf(Len(low_window), Len(close_window)))
        typical_prices == [i \in 1..n |->
                              (high_window[i] + low_window[i] + close_window[i]) \div 3]
        sma_tp == SeqSum(typical_prices) \div period
        mean_deviation ==
            SeqSum([i \in 1..n |-> Abs(typical_prices[i] - sma_tp)]) \div period
    IN  IF mean_deviation = 0 THEN 0
        ELSE FDiv(((typical_prices[n] - sma_tp) * 200) \div 3, mean_deviation)

commodity_channel_index(highs, lows, closes, period) ==
    IF Len(closes) < period THEN <<>>
    ELSE [n \in 1..(Len(closes) - period + 1) |->
              LET j == n + period - 1
              IN  CciOfWindow(PySlice(highs, j - period, j), PySlice(lows, j - period, j),
                              PySlice(closes, j - period, j), period)]

Max3(a, b, c) == IF a >= b /\ a >= c THEN a ELSE IF b >= c THEN b ELSE c

\* highs[i] / lows[i] raise IndexError when the list is shorter than closes
atr_raises(highs, lows, closes, period) ==
    /\ Len(closes) >= period + 1
    /\ Len(closes) >= 2
    /\ (Len(highs) < Len(closes) \/ Len(lows) < Len(closes))

RECURSIVE AtrLoop(_, _, _, _)
AtrLoop(true_ranges, i, atr, period) ==
    IF i > Len(true_ranges) THEN atr
    ELSE AtrLoop(true_ranges, i + 1,
                 Append(atr, FMul(Last(atr) * (period - 1) + true_ranges[i],
                                  Frac(1, period))),
                 period)

average_true_range(highs, lows, closes, period) ==
    IF Len(closes) < period + 1 \/ atr_raises(highs, lows, closes, period) THEN <<>>
    ELSE LET true_ranges == [i \in 1..(Len(closes) - 1) |->
                 Max3(highs[i + 1] - lows[i + 1],
                      Abs(highs[i + 1] - closes[i]),
                      Abs(lows[i + 1] - closes[i]))]
         IN  AtrLoop(true_ranges, period + 1,
                     << SeqSum(PySlice(true_ranges, 0, period)) \div period >>, period)

WilliamsR(highs, lows, closes, j, period) ==
    LET highest_high == WindowMax(PySlice(highs, j - period, j))
        lowest_low == WindowMin(PySlice(lows, j - period, j))
    IN  IF highest_high = lowest_low THEN Num(0 - 50)
        ELSE FDiv(highest_high - closes[j], highest_high - lowest_low) * (0 - 100)

williams_percent_r(highs, lows, closes, period) ==
    IF Len(closes) < period THEN <<>>
    ELSE [n \in 1..(Len(closes) - period + 1) |->
              WilliamsR(highs, lows, closes, n + period - 1, period)]

williams_raises(highs, lows, closes, period) ==
    range_raises(highs, lows, closes, period)

RECURSIVE ObvLoop(_, _, _, _)
ObvLoop(closes, volumes, i, obv) ==
    IF i > Len(closes) THEN obv
    ELSE ObvLoop(closes, volumes, i + 1,
                 Append(obv, IF closes[i] > closes[i - 1] THEN Last(obv) + volumes[i]
                             ELSE IF closes[i] < closes[i - 1] THEN Last(obv) - volumes[i]
                             ELSE Last(obv)))

on_balance_volume(closes, volumes) ==
    IF Len(closes) # Len(volumes) \/ Len(closes) < 2 THEN <<>>
    ELSE ObvLoop(closes, volumes, 2, << volumes[1] >>)

MoneyFlowMultiplier(h, l, c) ==
    IF h = l THEN 0 ELSE FDiv((c - l) - (h - c), h - l)

CmfOfWindow(high_window, low_window, close_window, volume_window) ==
    LET n == MinOf(MinOf(Len(high_window), Len(low_window)),
                   MinOf(Len(close_window), Len(volume_window)))
        mfv == [j \in 1..n |->
                   FMul(MoneyFlowMultiplier(high_window[j], low_window[j], close_window[j]),
                        volume_window[j])]
    IN  IF SeqSum(volume_window) # 0 THEN FDiv(SeqSum(mfv), SeqSum(volume_window)) ELSE 0

chaikin_money_flow(highs, lows, closes, volumes, period) ==
    IF Len(closes) < period THEN <<>>
    ELSE [n \in 1..(Len(closes) - period + 1) |->
              LET j == n + period - 1
              IN  CmfOfWindow(PySlice(highs, j - period, j), PySlice(lows, j - period, j),
                              PySlice(closes, j - period, j), PySlice(volumes, j - period, j))]


-----------------------------------------------------------------------------
(* Indicator analyzers.  highs / lows / volumes = None is the empty list:   *)
(* both are falsy in "if highs and lows" and "if volumes".                   *)

IndicatorResult(name, value, signal, strength) ==
    [name |-> name, value |-> value, signal |-> signal, strength |-> strength]

\* a faulty variant: a cross needs SMA(10) strictly on the other side on the previous bar
SmaCrossoverStrict(prev_10, prev_20, last_10, last_20) ==
    IF prev_10 < prev_20 /\ last_10 > last_20 THEN <<"BUY", Frac(8, 10)>>
    ELSE IF prev_10 > prev_20 /\ last_10 < last_20 THEN <<"SELL", Frac(8, 10)>>
    ELSE <<"HOLD", Frac(5, 10)>>

SmaCrossoverSignal(prev_10, prev_20, last_10, last_20) ==
    IF prev_10 <= prev_20 /\ last_10 > last_20 THEN <<"BUY", Frac(8, 10)>>
    ELSE IF prev_10 >= prev_20 /\ last_10 < last_20 THEN <<"SELL", Frac(8, 10)>>
    ELSE <<"HOLD", Frac(5, 10)>>

SmaCrossover(prices) ==
    LET sma_10 == simple_moving_average(prices, 10)
        sma_20 == simple_moving_average(prices, 20)
        last_10 == Last(sma_10)
        last_20 == Last(sma_20)
        prev_10 == IF Len(sma_10) > 1 THEN Prev(sma_10) ELSE last_10
        prev_20 == IF Len(sma_20) > 1 THEN Prev(sma_20) ELSE last_20
        sig == SmaCrossoverSignal(prev_10, prev_20, last_10, last_20)
    IN  IF Len(prices) >= 20 /\ sma_10 # <<>> /\ sma_20 # <<>>
        THEN << IndicatorResult("SMA_Crossover", last_10 - last_20, sig[1], sig[2]) >>
        ELSE <<>>

MacdSignal(histogram) ==
    LET last_hist == Last(histogram)
    IN  IF last_hist > 0 /\ Len(histogram) > 1 /\ Prev(histogram) <= 0
        THEN <<"BUY", Frac(7, 10)>>
        ELSE IF last_hist < 0 /\ Len(histogram) > 1 /\ Prev(histogram) >= 0
        THEN <<"SELL", Frac(7, 10)>>
        ELSE <<"HOLD", Frac(6, 10)>>

MacdAnalysis(prices) ==
    LET m == macd(prices, 12, 26, 9)
        sig == MacdSignal(m.histogram)
    IN  IF Len(prices) >= 35 /\ m.macd_line # <<>> /\ m.signal_line # <<>>
           /\ m.histogram # <<>>
        THEN << IndicatorResult("MACD", Last(m.histogram), sig[1], sig[2]) >>
        ELSE <<>>

analyze_trend_indicators(prices, highs, lows) ==
    SmaCrossover(prices) \o MacdAnalysis(prices)

RsiSignal(last_rsi) ==
    IF last_rsi > Num(70) THEN <<"SELL", PyMin(Frac(8, 10), (last_rsi - Num(70)) \div 30)>>
    ELSE IF last_rsi < Num(30)
    THEN <<"BUY", PyMin(Frac(8, 10), (Num(30) - last_rsi) \div 30)>>
    ELSE <<"HOLD", Frac(5, 10)>>

RsiAnalysis(prices) ==
    LET rsi_values == rsi(prices, 14)
        sig == RsiSignal(Last(rsi_values))
    IN  IF Len(prices) >= 15 /\ rsi_values # <<>>
        THEN << IndicatorResult("RSI", Last(rsi_values), sig[1], sig[2]) >>
        ELSE <<>>

\* "if highs and lows and len(highs) >= n and len(highs) == len(lows) == len(prices)"
HasOhlc(prices, highs, lows, n) ==
    /\ highs # <<>>
    /\ lows # <<>>
    /\ Len(highs) >= n
    /\ Len(highs) = Len(lows)
    /\ Len(lows) = Len(prices)

StochasticSignal(k_values, d_values) ==
    LET last_k == Last(k_values)
        last_d == Last(d_values)
    IN  IF last_k > Num(80) /\ last_d > Num(80) THEN <<"SELL", Frac(7, 10)>>
        ELSE IF last_k < Num(20) /\ last_d < Num(20) THEN <<"BUY", Frac(7, 10)>>
        ELSE IF last_k > last_d /\ Len(k_values) > 1 /\ Prev(k_values) <= Prev(d_values)
        THEN <<"BUY", Frac(6, 10)>>
        ELSE IF last_k < last_d /\ Len(k_values) > 1 /\ Prev(k_values) >= Prev(d_values)
        THEN <<"SELL", Frac(6, 10)>>
        ELSE <<"HOLD", Frac(5, 10)>>

StochasticAnalysis(prices, highs, lows) ==
    IF ~HasOhlc(prices, highs, lows, 17) THEN <<>>
    ELSE LET st == stochastic_oscillator(highs, lows, prices, 14, 3)
             sig == StochasticSignal(st.k_values, st.d_values)
         IN  IF st.k_values # <<>> /\ st.d_values # <<>>
             THEN << IndicatorResult("Stochastic", Last(st.k_values), sig[1], sig[2]) >>
             ELSE <<>>

WilliamsSignal(last_r) ==
    IF last_r > Num(0 - 20)
    THEN <<"SELL", PyMin(Frac(8, 10), (last_r + Num(20)) \div 20)>>
    ELSE IF last_r < Num(0 - 80)
    THEN <<"BUY", PyMin(Frac(8, 10), (Num(0 - 80) - last_r) \div 20)>>
    ELSE <<"HOLD", Frac(5, 10)>>

WilliamsAnalysis(prices, highs, lows) ==
    IF ~HasOhlc(prices, highs, lows, 15) THEN <<>>
    ELSE LET williams_r == williams_percent_r(highs, lows, prices, 14)
             sig == WilliamsSignal(Last(williams_r))
         IN  IF williams_r # <<>>
             THEN << IndicatorResult("Williams_R", Last(williams_r), sig[1], sig[2]) >>
             ELSE <<>>

analyze_momentum_indicators(prices, highs, lows) ==
    RsiAnalysis(prices) \o StochasticAnalysis(prices, highs, lows)
        \o WilliamsAnalysis(prices, highs, lows)

\* the band values are numpy float64 (np.std), so these divisions never raise
BollingerSignal(last_price, last_sma, last_upper, last_lower) ==
    IF last_price <= last_lower
    THEN <<"BUY", PyMin(Frac(8, 10), NpDiv(last_lower - last_price, last_lower))>>
    ELSE IF last_price >= last_upper
    THEN <<"SELL", PyMin(Frac(8, 10), NpDiv(last_price - last_upper, last_upper))>>
    ELSE LET bb_width == NpDiv(last_upper - last_lower, last_sma)
         IN  IF bb_width # NaN /\ bb_width > Frac(1, 10) THEN <<"HOLD", Frac(6, 10)>>
             ELSE <<"HOLD", Frac(4, 10)>>

BollingerAnalysis(prices) ==
    LET bb == bollinger_bands(prices, 20, Num(2))
        last_price == Last(prices)
        last_sma == Last(bb.sma)
        last_upper == Last(bb.upper_band)
        last_lower == Last(bb.lower_band)
        sig == BollingerSignal(last_price, last_sma, last_upper, last_lower)
    IN  IF Len(prices) >= 20 /\ bb.sma # <<>> /\ bb.upper_band # <<>>
           /\ bb.lower_band # <<>>
        THEN << IndicatorResult("Bollinger_Bands",
                                NpDiv(last_price - last_sma, last_upper - last_lower),
                                sig[1], sig[2]) >>
        ELSE <<>>

\* a faulty variant: the CAUTION strength is not capped at 0.9
AtrSignalUncapped(volatility_ratio) ==
    IF volatility_ratio > Frac(5, 100) THEN <<"CAUTION", volatility_ratio * 10>>
    ELSE IF volatility_ratio < Frac(1, 100) THEN <<"NEUTRAL", Frac(3, 10)>>
    ELSE <<"NEUTRAL", Frac(5, 10)>>

AtrSignal(volatility_ratio) ==
    IF volatility_ratio > Frac(5, 100)
    THEN <<"CAUTION", PyMin(Frac(9, 10), volatility_ratio * 10)>>
    ELSE IF volatility_ratio < Frac(1, 100) THEN <<"NEUTRAL", Frac(3, 10)>>
    ELSE <<"NEUTRAL", Frac(5, 10)>>

AtrAvgPrice(prices) == SeqSum(PyTail(prices, 14)) \div 14

\* last_atr / avg_price divides two Python floats: ZeroDivisionError on 0
AtrRaises(prices, highs, lows) ==
    /\ HasOhlc(prices, highs, lows, 15)
    /\ average_true_range(highs, lows, prices, 14) # <<>>
    /\ AtrAvgPrice(prices) = 0

AtrAnalysis(prices, highs, lows) ==
    IF ~HasOhlc(prices, highs, lows, 15) \/ AtrRaises(prices, highs, lows) THEN <<>>
    ELSE LET atr_values == average_true_range(highs, lows, prices, 14)
             last_atr == Last(atr_values)
             sig == AtrSignal(FDiv(last_atr, AtrAvgPrice(prices)))
         IN  IF atr_values # <<>>
             THEN << IndicatorResult("ATR", last_atr, sig[1], sig[2]) >>
             ELSE <<>>

analyze_volatility_indicators(prices, highs, lows) ==
    BollingerAnalysis(prices) \o AtrAnalysis(prices, highs, lows)

volatility_raises(prices, highs, lows) == AtrRaises(prices, highs, lows)

ObvSignal(last_obv, prev_obv) ==
    IF last_obv > prev_obv THEN <<"BUY", Frac(6, 10)>>
    ELSE IF last_obv < prev_obv THEN <<"SELL", Frac(6, 10)>>
    ELSE <<"HOLD", Frac(4, 10)>>

ObvAnalysis(prices, volumes) ==
    LET obv_values == on_balance_volume(prices, volumes)
        sig == ObvSignal(Last(obv_values), Prev(obv_values))
    IN  IF Len(prices) >= 2 /\ Len(obv_values) >= 2
        THEN << IndicatorResult("OBV", Last(obv_values), sig[1], sig[2]) >>
        ELSE <<>>

CmfSignal(last_cmf) ==
    IF last_cmf > Frac(25, 100) THEN <<"BUY", PyMin(Frac(8, 10), last_cmf)>>
    ELSE IF last_cmf < 0 - Frac(25, 100) THEN <<"SELL", PyMin(Frac(8, 10), Abs(last_cmf))>>
    ELSE <<"HOLD", Frac(5, 10)>>

\* the analyzer passes [] for highs and lows
CmfAnalysis(prices, volumes) ==
    LET cmf_values == chaikin_money_flow(<<>>, <<>>, prices, volumes, 21)
        sig == CmfSignal(Last(cmf_values))
    IN  IF Len(prices) >= 21 /\ cmf_values # <<>>
        THEN << IndicatorResult("CMF", Last(cmf_values), sig[1], sig[2]) >>
        ELSE <<>>

analyze_volume_indicators(prices, volumes) ==
    IF volumes # <<>> /\ Len(volumes) = Len(prices)
    THEN ObvAnalysis(prices, volumes) \o CmfAnalysis(prices, volumes)
    ELSE <<>>

get_comprehensive_analysis(prices, highs, lows, volumes) ==
    [trend |-> analyze_trend_indicators(prices, highs, lows),
     momentum |-> analyze_momentum_indicators(prices, highs, lows),
     volatility |-> analyze_volatility_indicators(prices, highs, lows),
     volume |-> analyze_volume_indicators(prices, volumes)]

-----------------------------------------------------------------------------
(* Composite signal aggregator *)

DefaultWeights ==
    [trend |-> Frac(4, 10), momentum |-> Frac(3, 10),
     volatility |-> Frac(2, 10), volume |-> Frac(1, 10)]

\* weights.get(category, 0.25)
CategoryWeight(weights, category) ==
    IF category \in DOMAIN weights THEN weights[category] ELSE Frac(25, 100)

SignalScore(signal) ==
    IF signal = "BUY" THEN 1 ELSE IF signal = "SELL" THEN 0 - 1 ELSE 0

\* a faulty variant: a category's weight enters total_weight once, not once per indicator
RECURSIVE CategoryTotalsWeightOnce(_, _)
CategoryTotalsWeightOnce(indicators, weight) ==
    IF indicators = <<>> THEN <<0, 0>>
    ELSE LET rest == CategoryTotalsWeightOnce(Tail(indicators), weight)
             weighted_score ==
                 SignalScore(indicators[1].signal) * FMul(indicators[1].strength, weight)
         IN  <<weighted_score + rest[1], weight>>

\* the contributions of one category's indicators: <<total_score, total_weight>>
RECURSIVE CategoryTotals(_, _)
CategoryTotals(indicators, weight) ==
    IF indicators = <<>> THEN <<0, 0>>
    ELSE LET rest == CategoryTotals(Tail(indicators), weight)
             weighted_score ==
                 SignalScore(indicators[1].signal) * FMul(indicators[1].strength, weight)
         IN  <<weighted_score + rest[1], weight + rest[2]>>

RECURSIVE AllTotals(_, _, _)
AllTotals(analysis_results, weights, categories) ==
    IF categories = {} THEN <<0, 0>>
    ELSE LET c == CHOOSE x \in categories : TRUE
             one == CategoryTotals(analysis_results[c], CategoryWeight(weights, c))
             rest == AllTotals(analysis_results, weights, categories \ {c})
         IN  <<one[1] + rest[1], one[2] + rest[2]>>

FinalScore(total_score, total_weight) ==
    IF total_weight > 0 THEN FDiv(total_score, total_weight) ELSE 0

CompositeSignalOf(final_score) ==
    IF final_score > Frac(3, 10) THEN "BUY"
    ELSE IF final_score < 0 - Frac(3, 10) THEN "SELL"
    ELSE "HOLD"

get_weighted_signal(analysis_results, weights) ==
    LET totals == AllTotals(analysis_results, weights, DOMAIN analysis_results)
        final_score == FinalScore(totals[1], totals[2])
    IN  IndicatorResult("Composite_Signal", final_score, CompositeSignalOf(final_score),
                        PyMin(Num(1), Abs(final_score)))


-----------------------------------------------------------------------------
(* The indicator core as a state machine: an external data provider grows   *)
(* the series bar by bar; the caller runs the analysis or a library call on *)
(* the current series.                                                      *)

ZeroBar == [high |-> 0, low |-> 0, close |-> 0, volume |-> 0]
FlatBar == [high |-> 10, low |-> 10, close |-> 10, volume |-> 1]
WideBar == [high |-> 12, low |-> 8, close |-> 11, volume |-> 2]

BarTypes == {ZeroBar, FlatBar, WideBar}

\* how the caller shapes the parallel sequences it passes
Shapes == {"full", "short_highs", "short_lows", "short_volumes"}

InFamily(s) == \A i \in 1..Len(s) : s[i] # s[1] => Len(s) - i + 1 <= MaxTail

DropLast(s) == IF s = <<>> THEN s ELSE SubSeq(s, 1, Len(s) - 1)

Closes(bs) == [i \in 1..Len(bs) |-> Num(bs[i].close)]
Highs(bs, shape) ==
    LET all == [i \in 1..Len(bs) |-> Num(bs[i].high)]
    IN  IF shape = "short_highs" THEN DropLast(all) ELSE all
Lows(bs, shape) ==
    LET all == [i \in 1..Len(bs) |-> Num(bs[i].low)]
    IN  IF shape = "short_lows" THEN DropLast(all) ELSE all
Volumes(bs, shape) ==
    LET all == [i \in 1..Len(bs) |-> Num(bs[i].volume)]
    IN  IF shape = "short_volumes" THEN DropLast(all) ELSE all

NoCall == [op |-> "none"]

\* the four analyzers called one by one, then the aggregator on their results
\* (get_comprehensive_analysis raises when one of them does)
AnalyzeCall(bs, shape) ==
    LET prices == Closes(bs)
        highs == Highs(bs, shape)
        lows == Lows(bs, shape)
        volumes == Volumes(bs, shape)
        raised == [trend |-> FALSE, momentum |-> FALSE,
                   volatility |-> volatility_raises(prices, highs, lows),
                   volume |-> FALSE]
        analysis == [trend |-> analyze_trend_indicators(prices, highs, lows),
                     momentum |-> analyze_momentum_indicators(prices, highs, lows),
                     volatility |-> IF raised.volatility THEN <<>>
                                    ELSE analyze_volatility_indicators(prices, highs, lows),
                     volume |-> analyze_volume_indicators(prices, volumes)]
    IN  [op |-> "analyze", shape |-> shape, raised |-> raised, analysis |-> analysis,
         composite |-> IF raised.volatility THEN <<>>
                       ELSE << get_weighted_signal(analysis, DefaultWeights) >>]

LibraryCall(bs, shape, p) ==
    LET prices == Closes(bs)
        highs == Highs(bs, shape)
        lows == Lows(bs, shape)
        volumes == Volumes(bs, shape)
        stoch_raised == stochastic_raises(highs, lows, prices, p)
        williams_raised == williams_raises(highs, lows, prices, p)
        atr_raised == atr_raises(highs, lows, prices, p)
    IN  [op |-> "library", shape |-> shape, period |-> p,
         raised |-> [stochastic |-> stoch_raised, williams |-> williams_raised,
                     atr |-> atr_raised],
         sma |-> simple_moving_average(prices, p),
         ema |-> exponential_moving_average(prices, p),
         wma |-> weighted_moving_average(prices, p),
         macd |-> macd(prices, p, p + 1, p),
         rsi |-> rsi(prices, p),
         bollinger |-> bollinger_bands(prices, p, Num(2)),
         stochastic |-> IF stoch_raised THEN [k_values |-> <<>>, d_values |-> <<>>]
                        ELSE stochastic_oscillator(highs, lows, prices, p, p),
         cci |-> commodity_channel_index(highs, lows, prices, p),
         atr |-> average_true_range(highs, lows, prices, p),
         williams |-> IF williams_raised THEN <<>>
                      ELSE williams_percent_r(highs, lows, prices, p),
         obv |-> on_balance_volume(prices, volumes),
         cmf |-> chaikin_money_flow(highs, lows, prices, volumes, p)]

Categories == {"trend", "momentum", "volatility", "volume"}

SigIdle ==
    /\ sig_analysis = [c \in Categories |-> <<>>]
    /\ sig_weights = DefaultWeights
    /\ sig_composite = <<>>

\* Asset(...): the fields the optimizer reads
Asset(symbol, current_price, expected_return, volatility, weight) ==
    [symbol |-> symbol, current_price |-> current_price,
     expected_return |-> expected_return, volatility |-> volatility,
     weight |-> weight, signal_strength |-> 0]

\* Portfolio(name=..., total_value=...): the dataclass defaults; total_value is
\* kept in whole currency units
Portfolio(assets, total_value, correlation_matrix) ==
    [assets |-> assets, total_value |-> total_value,
     risk_free_rate |-> Frac(45, 1000), rebalance_threshold |-> Frac(5, 100),
     correlation_matrix |-> correlation_matrix]

\* Portfolio(name=...): no assets, total_value 0.0, an empty correlation dict
NoPortfolio == Portfolio(<<>>, 0, [k \in {} |-> 0])

NoResult == [op |-> "none"]

OptIdle ==
    /\ portfolio = NoPortfolio
    /\ opt_result = NoResult

\* KnowledgeCache(): client is whether redis.from_url gave a client (it does
\* not connect); reachable is whether the Redis server answers; redis is the
\* server's key space, fallback the in-process dict, now the clock in seconds;
\* last_set and last_get record the calls made
KnowledgeCache(client) ==
    [client |-> client, reachable |-> client,
     redis |-> [k \in {} |-> 0], fallback |-> [k \in {} |-> 0],
     now |-> 0, last_set |-> [k \in {} |-> 0], last_get |-> <<>>]

CacheIdle == cache = KnowledgeCache(FALSE)

\* an empty agent_weights table, no request made
NoResponse == [op |-> "none"]

\* only_positive records whether every POST so far held a positive weight
AgentIdle == agent_api = [table |-> [a \in {} |-> 0], response |-> NoResponse, only_positive |-> TRUE]

\* no backtest was run
BacktestIdle == backtest = [phase |-> "idle"]

\* session_state["job_manager"] as __init__ builds it, no thread, no cleanup
\* pc is where each worker thread stands, to_remove the list a running cleanup
\* holds, deleted_running records whether a cleanup deleted a running job
NoJobs == [j \in {} |-> 0]
JobsIdle == job_manager = [jobs |-> NoJobs, active_jobs |-> {}, pc |-> NoJobs, now |-> 0, cleanup |-> "idle", to_remove |-> {}, deleted_running |-> FALSE]

IndInit ==
    /\ bars = <<>>
    /\ call = NoCall
    /\ SigIdle
    /\ OptIdle
    /\ CacheIdle
    /\ AgentIdle
    /\ BacktestIdle
    /\ JobsIdle

AppendBar(b) ==
    /\ Len(bars) < MaxLen
    /\ InFamily(Append(bars, b))
    /\ bars' = Append(bars, b)
    /\ call' = NoCall
    /\ UNCHANGED <<sigVars, optVars, cacheVars, agentVars, btVars, jobVars>>

\* one call per snapshot of the series: the functions are pure, a repeated call
\* returns the same value
Analyze(shape) ==
    /\ call = NoCall
    /\ call' = AnalyzeCall(bars, shape)
    /\ UNCHANGED <<bars, sigVars, optVars, cacheVars, agentVars, btVars, jobVars>>

CallLibrary(shape, p) ==
    /\ call = NoCall
    /\ Len(bars) <= MaxLibLen
    /\ call' = LibraryCall(bars, shape, p)
    /\ UNCHANGED <<bars, sigVars, optVars, cacheVars, agentVars, btVars, jobVars>>

IndNext ==
    \/ \E b \in BarTypes : AppendBar(b)
    \/ \E shape \in Shapes : Analyze(shape)
    \/ \E shape \in Shapes, p \in 1..MaxPeriod : CallLibrary(shape, p)

SpecInd == IndInit /\ [][IndNext]_vars


-----------------------------------------------------------------------------
(* Properties of the indicator core *)

AllResults(analysis) ==
    analysis.trend \o analysis.momentum \o analysis.volatility \o analysis.volume

HasResult(analysis, name) ==
    \E i \in DOMAIN AllResults(analysis) : AllResults(analysis)[i].name = name

ResultNamed(analysis, name) ==
    LET all == AllResults(analysis)
    IN  all[CHOOSE i \in DOMAIN all : all[i].name = name]

AnalysisRaised == \E c \in DOMAIN call.raised : call.raised[c]

\* C5: a library function given fewer points than its window (period; period + 1
\* for RSI and ATR; the slow period for MACD) returns an empty sequence (empty
\* members for the multi-output indicators), a category analyzer given fewer
\* points than its indicators need returns no result for them (an empty list
\* when none has enough), and none of them raises.
C5_InsufficientDataIsEmpty ==
    LET n == Len(bars)
    IN  /\ call.op = "library" =>
            LET p == call.period
            IN  /\ n < p =>
                     /\ call.sma = <<>> /\ call.ema = <<>> /\ call.wma = <<>>
                     /\ call.bollinger.sma = <<>>
                     /\ call.bollinger.upper_band = <<>>
                     /\ call.bollinger.lower_band = <<>>
                     /\ call.stochastic.k_values = <<>>
                     /\ call.stochastic.d_values = <<>>
                     /\ call.cci = <<>> /\ call.williams = <<>> /\ call.cmf = <<>>
                     /\ ~call.raised.stochastic /\ ~call.raised.williams
                /\ n < p + 1 =>
                     /\ call.rsi = <<>> /\ call.atr = <<>>
                     /\ call.macd.macd_line = <<>>
                     /\ call.macd.signal_line = <<>>
                     /\ call.macd.histogram = <<>>
                     /\ ~call.raised.atr
        /\ call.op = "analyze" =>
            /\ n < 20 => call.analysis.trend = <<>>
            /\ n < 35 => ~HasResult(call.analysis, "MACD")
            /\ n < 15 => call.analysis.momentum = <<>> /\ call.analysis.volatility = <<>>
            /\ n < 17 => ~HasResult(call.analysis, "Stochastic")
            /\ n < 20 => ~HasResult(call.analysis, "Bollinger_Bands")
            /\ n < 2 => call.analysis.volume = <<>>
            /\ n < 21 => ~HasResult(call.analysis, "CMF")
            /\ n < 15 => ~AnalysisRaised

C5_Witness ==
    /\ call.op = "library"
    /\ call.shape = "full"
    /\ Len(bars) >= 1
    /\ Len(bars) = call.period - 1
    /\ call.ema = <<>>
    /\ call.macd.histogram = <<>>

\* the window of prices behind the k-th RSI value
RsiWindowOf(bs, period, k) == SubSeq(Closes(bs), k, k + period)

NoLossIn(window) == \A j \in 1..(Len(window) - 1) : window[j + 1] >= window[j]

RsiInRange(value, window) ==
    /\ value >= 0
    /\ value <= Num(100)
    /\ NoLossIn(window) => value = Num(100)

\* C6: rsi(prices, period) returns only values in [0, 100] for a series of at
\* least period + 1 points, and exactly 100 for every window whose average loss
\* is 0, a window of constant prices included.
C6_RsiBounded ==
    /\ call.op = "library" =>
           /\ Len(bars) >= call.period + 1 => Len(call.rsi) = Len(bars) - call.period
           /\ \A k \in DOMAIN call.rsi :
                  RsiInRange(call.rsi[k], RsiWindowOf(bars, call.period, k))
    /\ call.op = "analyze" /\ Len(bars) >= 15 =>
           /\ HasResult(call.analysis, "RSI")
           /\ RsiInRange(ResultNamed(call.analysis, "RSI").value,
                         RsiWindowOf(bars, 14, Len(bars) - 14))

C6_Witness ==
    /\ call.op = "library"
    /\ \E k \in DOMAIN call.rsi :
           /\ call.rsi[k] = Num(100)
           /\ \A j \in 1..call.period :
                  RsiWindowOf(bars, call.period, k)[j + 1]
                      = RsiWindowOf(bars, call.period, k)[j]
    /\ \E k \in DOMAIN call.rsi : call.rsi[k] > 0 /\ call.rsi[k] < Num(100)

ValidShaped(bs) ==
    \A i \in 1..Len(bs) :
        bs[i].low >= 0 /\ bs[i].low <= bs[i].close /\ bs[i].close <= bs[i].high

\* C7: for valid-shaped input (equal-length sequences, prices >= 0, low <= close
\* <= high) the four analyzers and the aggregator never raise and never divide
\* by zero: no call raises and no value they report is the result of a division
\* by zero.
C7_NeverRaisesNorDividesByZero ==
    call.op = "analyze" /\ call.shape = "full" /\ ValidShaped(bars) =>
        /\ ~AnalysisRaised
        /\ call.composite # <<>>
        /\ \A i \in DOMAIN AllResults(call.analysis) :
               /\ AllResults(call.analysis)[i].value # NaN
               /\ AllResults(call.analysis)[i].strength # NaN

\* the parallel sequences really differ in length (dropping the last element
\* of a one-bar series leaves the empty list, which the analyzers take as "not
\* provided")
Mismatched == call.shape # "full" /\ Len(bars) >= 2

\* C8: a call whose high / low / close / volume sequences differ in length
\* fails with an error; it never returns a result.
C8_MismatchFailsLoudly ==
    /\ call.op = "analyze" /\ Mismatched =>
           /\ call.shape \in {"short_highs", "short_lows"} =>
                  call.raised.momentum /\ call.raised.volatility
           /\ call.shape = "short_volumes" => call.raised.volume
    /\ call.op = "library" /\ Mismatched /\ call.shape \in {"short_highs", "short_lows"} =>
           call.raised.stochastic /\ call.raised.williams /\ call.raised.atr

Signals == {"BUY", "SELL", "HOLD", "NEUTRAL", "CAUTION"}

\* C9: every IndicatorResult of the four analyzers has a signal in {BUY, SELL,
\* HOLD, NEUTRAL, CAUTION} and a strength in [0, 1].
C9_SignalAndStrengthInRange ==
    call.op = "analyze" =>
        \A i \in DOMAIN AllResults(call.analysis) :
            LET r == AllResults(call.analysis)[i]
            IN  /\ r.signal \in Signals
                /\ r.strength # NaN
                /\ r.strength >= 0
                /\ r.strength <= Num(1)

C9_Witness ==
    /\ call.op = "analyze"
    /\ call.shape = "full"
    /\ HasResult(call.analysis, "ATR")
    /\ ResultNamed(call.analysis, "ATR").signal = "CAUTION"
    /\ ResultNamed(call.analysis, "ATR").strength = Frac(9, 10)
    /\ HasResult(call.analysis, "Bollinger_Bands")
    /\ HasResult(call.analysis, "Stochastic")
    /\ HasResult(call.analysis, "CMF")

\* the simple moving average of the `period` bars ending at bar t (1-based),
\* defined when t >= period
SmaAtBar(bs, period, t) == SeqSum(SubSeq(Closes(bs), t - period + 1, t)) \div period

CrossedAbove(bs, prev_20) ==
    /\ SmaAtBar(bs, 10, Len(bs) - 1) <= prev_20
    /\ SmaAtBar(bs, 10, Len(bs)) > SmaAtBar(bs, 20, Len(bs))

CrossedBelow(bs, prev_20) ==
    /\ SmaAtBar(bs, 10, Len(bs) - 1) >= prev_20
    /\ SmaAtBar(bs, 10, Len(bs)) < SmaAtBar(bs, 20, Len(bs))

CrossoverIs(analysis, signal, strength) ==
    /\ HasResult(analysis, "SMA_Crossover")
    /\ ResultNamed(analysis, "SMA_Crossover").signal = signal
    /\ ResultNamed(analysis, "SMA_Crossover").strength = strength

CrossoverMatches(analysis, bs, prev_20) ==
    /\ CrossedAbove(bs, prev_20) <=> CrossoverIs(analysis, "BUY", Frac(8, 10))
    /\ CrossedBelow(bs, prev_20) <=> CrossoverIs(analysis, "SELL", Frac(8, 10))
    /\ ~CrossedAbove(bs, prev_20) /\ ~CrossedBelow(bs, prev_20)
           <=> CrossoverIs(analysis, "HOLD", Frac(5, 10))

\* C10 as stated: for every series of at least 20 points, exactly 20 included,
\* SMA_Crossover is BUY 0.8 exactly when SMA(10) was at or below SMA(20) on the
\* previous bar and is above it on the latest bar, SELL 0.8 in the mirrored
\* case, HOLD 0.5 otherwise.  A series of exactly 20 points has no SMA(20) on
\* the previous bar, so no cross can have happened there.
C10_Original ==
    call.op = "analyze" /\ Len(bars) >= 20 =>
        IF Len(bars) >= 21
        THEN CrossoverMatches(call.analysis, bars, SmaAtBar(bars, 20, Len(bars) - 1))
        ELSE CrossoverIs(call.analysis, "HOLD", Frac(5, 10))

\* C10 as amended: the statement holds for series of at least 21 points; with
\* exactly 20 points the previous bar's SMA(10) is compared with the latest
\* SMA(20), the only one there is.
C10_CrossoverFrom21 ==
    call.op = "analyze" /\ Len(bars) >= 20 =>
        CrossoverMatches(call.analysis, bars,
                         IF Len(bars) >= 21 THEN SmaAtBar(bars, 20, Len(bars) - 1)
                         ELSE SmaAtBar(bars, 20, Len(bars)))

C10_Witness ==
    /\ call.op = "analyze"
    /\ Len(bars) >= 21
    /\ CrossedAbove(bars, SmaAtBar(bars, 20, Len(bars) - 1))
    /\ CrossoverIs(call.analysis, "BUY", Frac(8, 10))


\* the Chaikin Money Flow of the last 21 bars of the series
CmfOfLast21(bs) ==
    Last(chaikin_money_flow(Highs(bs, "full"), Lows(bs, "full"), Closes(bs),
                            Volumes(bs, "full"), 21))

\* C11: the CMF result of analyze_volume_indicators, called with highs, lows,
\* closes and volumes of equal length, carries the Chaikin Money Flow of the
\* last 21 bars, and is BUY above 0.25, SELL below -0.25 (strength |CMF| capped
\* at 0.8), else HOLD 0.5.
C11_CmfOfLast21Bars ==
    call.op = "analyze" /\ call.shape = "full" /\ Len(bars) >= 21 =>
        /\ HasResult(call.analysis, "CMF")
        /\ LET r == ResultNamed(call.analysis, "CMF")
               cmf == CmfOfLast21(bars)
           IN  /\ r.value = cmf
               /\ cmf > Frac(25, 100) =>
                      r.signal = "BUY" /\ r.strength = MinOf(cmf, Frac(8, 10))
               /\ cmf < 0 - Frac(25, 100) =>
                      r.signal = "SELL" /\ r.strength = MinOf(Abs(cmf), Frac(8, 10))
               /\ (cmf <= Frac(25, 100) /\ cmf >= 0 - Frac(25, 100)) =>
                      r.signal = "HOLD" /\ r.strength = Frac(5, 10)

\* C11, second half: BUY and SELL are outcomes the CMF indicator can produce;
\* stated as its negation, which the code satisfies in every reachable state.
C11_CmfNeverBuysOrSells ==
    call.op = "analyze" /\ HasResult(call.analysis, "CMF") =>
        /\ ResultNamed(call.analysis, "CMF").value = 0
        /\ ResultNamed(call.analysis, "CMF").signal = "HOLD"

-----------------------------------------------------------------------------
(* The aggregator as a state machine: a caller assembles analysis results   *)
(* (any signals, strengths in [0, 1]) and category weights, then calls      *)
(* get_weighted_signal.                                                     *)

IndicatorKinds ==
    {<<"BUY", Num(1)>>, <<"BUY", Frac(5, 10)>>, <<"SELL", Num(1)>>,
     <<"SELL", Frac(5, 10)>>, <<"HOLD", Frac(5, 10)>>, <<"CAUTION", Frac(9, 10)>>}

\* weights = None (the defaults) and caller-supplied overrides: complete,
\* partial (a missing category gets 0.25), with a negative weight, all zero
WeightChoices ==
    {DefaultWeights,
     [c \in Categories |-> Num(1)],
     [trend |-> Num(1)],
     [trend |-> Num(1), momentum |-> 0 - Frac(5, 10)],
     [c \in Categories |-> 0]}

IndicatorCount(analysis) ==
    Len(analysis.trend) + Len(analysis.momentum) + Len(analysis.volatility)
        + Len(analysis.volume)

SigInit ==
    /\ bars = <<>>
    /\ call = NoCall
    /\ sig_analysis = [c \in Categories |-> <<>>]
    /\ sig_weights \in WeightChoices
    /\ sig_composite = <<>>
    /\ OptIdle
    /\ CacheIdle
    /\ AgentIdle
    /\ BacktestIdle
    /\ JobsIdle

AddIndicator(c, kind) ==
    /\ IndicatorCount(sig_analysis) < MaxIndicators
    /\ sig_analysis' = [sig_analysis EXCEPT
                            ![c] = Append(@, IndicatorResult("indicator", 0, kind[1], kind[2]))]
    /\ sig_composite' = <<>>
    /\ UNCHANGED <<sig_weights, indVars, optVars, cacheVars, agentVars, btVars, jobVars>>

GetWeightedSignal ==
    /\ sig_composite = <<>>
    /\ sig_composite' = << get_weighted_signal(sig_analysis, sig_weights) >>
    /\ UNCHANGED <<sig_analysis, sig_weights, indVars, optVars, cacheVars, agentVars, btVars, jobVars>>

SigNext ==
    \/ \E c \in Categories, kind \in IndicatorKinds : AddIndicator(c, kind)
    \/ GetWeightedSignal

SpecSig == SigInit /\ [][SigNext]_vars

-----------------------------------------------------------------------------
(* Properties of the aggregator *)

CompositeInRange ==
    /\ sig_composite[1].value >= 0 - Num(1)
    /\ sig_composite[1].value <= Num(1)
    /\ sig_composite[1].strength >= 0
    /\ sig_composite[1].strength <= Num(1)

\* C3: for analysis results with strengths in [0, 1] the composite's value is
\* in [-1, 1] and its strength in [0, 1], with the default weights and with any
\* caller-supplied weight override.
C3_CompositeInRange == sig_composite # <<>> => CompositeInRange

\* sum of f[x] over a set of categories
RECURSIVE SumOver(_, _)
SumOver(f, set) ==
    IF set = {} THEN 0
    ELSE LET x == CHOOSE y \in set : TRUE IN f[x] + SumOver(f, set \ {x})

\* BUY = +1, SELL = -1, anything else 0, times strength times category weight
Contribution(r, weight) ==
    IF r.signal = "BUY" THEN FMul(r.strength, weight)
    ELSE IF r.signal = "SELL" THEN 0 - FMul(r.strength, weight)
    ELSE 0

ContributionSum(analysis, weights) ==
    SumOver([c \in DOMAIN analysis |->
                 SeqSum([i \in DOMAIN analysis[c] |->
                             Contribution(analysis[c][i], CategoryWeight(weights, c))])],
            DOMAIN analysis)

ScoreOver(total, denominator) ==
    IF denominator > 0 THEN (total * SC) \div denominator ELSE 0

\* C4 as stated: the score is the sum of the contributions divided by the sum
\* of the weights of the categories that have at least one indicator.
C4_Original ==
    sig_composite # <<>> =>
        sig_composite[1].value =
            ScoreOver(ContributionSum(sig_analysis, sig_weights),
                      SumOver([c \in DOMAIN sig_analysis |->
                                   IF sig_analysis[c] # <<>>
                                   THEN CategoryWeight(sig_weights, c) ELSE 0],
                              DOMAIN sig_analysis))

\* C4 as amended: the divisor is the sum, over all indicators, of the weight of
\* the indicator's category (a category's weight counts once per indicator it
\* has), and the score is 0 when that sum is not positive.
C4_ScorePerIndicatorWeight ==
    sig_composite # <<>> =>
        sig_composite[1].value =
            ScoreOver(ContributionSum(sig_analysis, sig_weights),
                      SumOver([c \in DOMAIN sig_analysis |->
                                   Len(sig_analysis[c]) * CategoryWeight(sig_weights, c)],
                              DOMAIN sig_analysis))

C4_Witness ==
    /\ sig_composite # <<>>
    /\ sig_weights = DefaultWeights
    /\ Len(sig_analysis.trend) = 2
    /\ Len(sig_analysis.momentum) = 1
    /\ sig_analysis.volatility = <<>>
    /\ sig_analysis.volume = <<>>
    /\ sig_composite[1].value > 0
    /\ sig_composite[1].value < Num(1)


-----------------------------------------------------------------------------
(* Portfolio optimizer: numpy arithmetic *)

\* float64 arithmetic never raises: a nan or inf operand gives nan or inf
NpAdd(a, b) == IF a = NaN \/ b = NaN THEN NaN ELSE a + b

NpSub(a, b) == IF a = NaN \/ b = NaN THEN NaN ELSE a - b

NpMul(a, b) == IF a = NaN \/ b = NaN THEN NaN ELSE FMul(a, b)

NpSqrt(x) == IF x = NaN \/ x < 0 THEN NaN ELSE FSqrt(x)

NpAbs(x) == IF x = NaN THEN NaN ELSE Abs(x)

\* np.maximum(x, floor)
NpMaximum(x, floor) == IF x = NaN THEN NaN ELSE IF x >= floor THEN x ELSE floor

RECURSIVE NpSum(_)
NpSum(v) == IF v = <<>> THEN 0 ELSE NpAdd(v[1], NpSum(Tail(v)))

NpDot(a, b) == NpSum([i \in DOMAIN a |-> NpMul(a[i], b[i])])

\* np.dot(matrix, vector)
NpMatVec(m, v) == [i \in DOMAIN v |-> NpDot(m[i], v)]

\* vector / scalar
NpScale(v, d) == [i \in DOMAIN v |-> NpDiv(v[i], d)]

\* np.ones(n) / n
EqualWeights(n) == [i \in 1..n |-> Frac(1, n)]

\* dict(zip(symbols, values)): a repeated symbol keeps its last value
DictZip(symbols, values) ==
    [s \in {symbols[i] : i \in DOMAIN symbols} |->
        LET last == CHOOSE i \in DOMAIN symbols :
                        /\ symbols[i] = s
                        /\ \A j \in DOMAIN symbols : symbols[j] = s => j <= i
        IN  values[last]]

\* sum(d.values())
RECURSIVE DictSum(_, _)
DictSum(d, keys) ==
    IF keys = {} THEN 0
    ELSE LET k == CHOOSE x \in keys : TRUE IN NpAdd(d[k], DictSum(d, keys \ {k}))

-----------------------------------------------------------------------------
(* Portfolio optimizer: the Portfolio and its construction *)

TechStocks == {"AAPL", "MSFT", "GOOGL", "AMZN", "TSLA", "NVDA", "META", "NFLX"}
HighVolStocks == {"TSLA", "NVDA", "NFLX"}
CorrelatedStocks == {"AAPL", "MSFT", "GOOGL", "AMZN"}

\* Python's hash() of a string is salted per process: a seed picks one of a
\* small family of hash functions over the symbols and their concatenations
SymbolCode(s) ==
    IF s = "AAPL" THEN 3 ELSE IF s = "TSLA" THEN 11 ELSE IF s = "MSFT" THEN 6 ELSE 8

Hash(seed, s) == seed * 13 + SymbolCode(s)

HashOfPair(seed, s1, s2) == seed * 17 + 5 * SymbolCode(s1) + SymbolCode(s2)

\* base_prices.get(symbol, 100.0 + hash(symbol) % 500), in whole currency units
_get_mock_price(seed, symbol) ==
    IF symbol = "AAPL" THEN 175 ELSE IF symbol = "MSFT" THEN 380
    ELSE IF symbol = "TSLA" THEN 220 ELSE 100 + (Hash(seed, symbol) % 500)

_get_mock_expected_return(seed, symbol) ==
    IF symbol \in TechStocks THEN Frac(12, 100) + Frac(Hash(seed, symbol) % 10, 100)
    ELSE Frac(8, 100) + Frac(Hash(seed, symbol) % 8, 100)

_get_mock_volatility(seed, symbol) ==
    IF symbol \in HighVolStocks THEN Frac(35, 100) + Frac(Hash(seed, symbol) % 15, 100)
    ELSE Frac(20, 100) + Frac(Hash(seed, symbol) % 15, 100)

MockCorrelation(seed, i, j, sym1, sym2) ==
    IF i = j THEN Num(1)
    ELSE IF sym1 \in CorrelatedStocks /\ sym2 \in CorrelatedStocks
         THEN Frac(65, 100) + Frac(HashOfPair(seed, sym1, sym2) % 20, 100)
         ELSE Frac(30, 100) + Frac(HashOfPair(seed, sym1, sym2) % 30, 100)

\* a faulty variant: each position writes the key (sym1, sym2) only
CorrelationMatrixOneOrdering(seed, symbols) ==
    LET n == Len(symbols)
        Pos(i, j) == (i - 1) * n + j
        Writes(k) == {<<i, j>> \in (1..n) \X (1..n) : k = <<symbols[i], symbols[j]>>}
        LastWrite(k) == CHOOSE w \in Writes(k) :
                            \A v \in Writes(k) : Pos(v[1], v[2]) <= Pos(w[1], w[2])
        keys == {<<symbols[i], symbols[j]>> : i \in 1..n, j \in 1..n}
    IN  [k \in keys |->
            LET w == LastWrite(k)
            IN  MockCorrelation(seed, w[1], w[2], symbols[w[1]], symbols[w[2]])]

\* the double loop of _generate_correlation_matrix writes (sym1, sym2) and
\* (sym2, sym1) at every (i, j) in row-major order; a key keeps the value of
\* the last position that wrote it
_generate_correlation_matrix(seed, symbols) ==
    LET n == Len(symbols)
        Pos(i, j) == (i - 1) * n + j
        Writes(k) == {<<i, j>> \in (1..n) \X (1..n) :
                          k = <<symbols[i], symbols[j]>> \/ k = <<symbols[j], symbols[i]>>}
        LastWrite(k) == CHOOSE w \in Writes(k) :
                            \A v \in Writes(k) : Pos(v[1], v[2]) <= Pos(w[1], w[2])
        keys == {<<symbols[i], symbols[j]>> : i \in 1..n, j \in 1..n}
    IN  [k \in keys |->
            LET w == LastWrite(k)
            IN  MockCorrelation(seed, w[1], w[2], symbols[w[1]], symbols[w[2]])]

create_portfolio(seed, symbols, initial_value) ==
    Portfolio([i \in DOMAIN symbols |->
                   Asset(symbols[i], _get_mock_price(seed, symbols[i]),
                         _get_mock_expected_return(seed, symbols[i]),
                         _get_mock_volatility(seed, symbols[i]),
                         Frac(1, Len(symbols)))],
              initial_value,
              _generate_correlation_matrix(seed, symbols))

\* correlation_matrix.get((sym_i, sym_j), 0.5)
CorrelationOf(pf, sym_i, sym_j) ==
    IF <<sym_i, sym_j>> \in DOMAIN pf.correlation_matrix
    THEN pf.correlation_matrix[<<sym_i, sym_j>>] ELSE Frac(5, 10)

_create_covariance_matrix(pf) ==
    [i \in DOMAIN pf.assets |-> [j \in DOMAIN pf.assets |->
        FMul(FMul(CorrelationOf(pf, pf.assets[i].symbol, pf.assets[j].symbol),
                  pf.assets[i].volatility),
             pf.assets[j].volatility)]]

-----------------------------------------------------------------------------
(* Portfolio optimizer: the weight heuristics *)

\* equal weights, scaled by min(target / current, 2) when the equal-weight
\* return is positive, then normalised
\* a faulty variant: the weights lean towards the assets with the higher return
TargetReturnTilted(returns, target_return) ==
    NpScale(returns, NpSum(returns))

_optimize_for_target_return(returns, target_return) ==
    LET weights == EqualWeights(Len(returns))
        current_return == NpDot(weights, returns)
        scaled ==
            IF current_return # NaN /\ current_return > 0
            THEN LET scale_factor == NpDiv(target_return, current_return)
                 IN  [i \in DOMAIN weights |->
                         NpMul(weights[i], PyMin(scale_factor, Num(2)))]
            ELSE weights
    IN  NpScale(scaled, NpSum(scaled))

\* (return - rf) / volatility per asset, floored at 0.01, normalised
_optimize_sharpe_ratio(returns, cov_matrix, risk_free_rate) ==
    IF \E i \in DOMAIN returns : cov_matrix[i][i] <= 0
    THEN EqualWeights(Len(returns))
    ELSE LET volatilities == [i \in DOMAIN returns |->
                 NpSqrt(NpMaximum(cov_matrix[i][i], Frac(1, 100000000)))]
             sharpe_components == [i \in DOMAIN returns |->
                 NpMaximum(NpDiv(NpSub(returns[i], risk_free_rate), volatilities[i]),
                           Frac(1, 100))]
         IN  NpScale(sharpe_components, NpSum(sharpe_components))

\* sqrt(w' cov w)
PortfolioVolatility(weights, cov_matrix) ==
    NpSqrt(NpDot(weights, NpMatVec(cov_matrix, weights)))

\* weights * np.dot(cov, weights) / portfolio_volatility
RiskContributions(weights, cov_matrix) ==
    LET marginal == NpMatVec(cov_matrix, weights)
        portfolio_volatility == PortfolioVolatility(weights, cov_matrix)
    IN  [i \in DOMAIN weights |->
            NpDiv(NpMul(weights[i], marginal[i]), portfolio_volatility)]

\* for _ in range(10)
RiskParityRounds == 10

RECURSIVE RiskParityLoop(_, _, _)
RiskParityLoop(weights, cov_matrix, rounds) ==
    IF rounds = 0 THEN weights
    ELSE LET risk_contributions == RiskContributions(weights, cov_matrix)
             target_risk == Frac(1, Len(weights))
             adjusted == [i \in DOMAIN weights |->
                 NpMul(weights[i], NpDiv(target_risk, risk_contributions[i]))]
         IN  RiskParityLoop(NpScale(adjusted, NpSum(adjusted)), cov_matrix, rounds - 1)

_optimize_risk_parity(cov_matrix, volatilities) ==
    RiskParityLoop(EqualWeights(Len(volatilities)), cov_matrix, RiskParityRounds)

\* min(sqrt(dot(weights, volatilities) ** 2) * 2.5, 0.5)
_estimate_max_drawdown(volatilities, weights) ==
    LET d == NpDot(weights, volatilities)
        portfolio_vol == NpSqrt(NpMul(d, d))
    IN  PyMin(NpMul(portfolio_vol, Frac(25, 10)), Frac(5, 10))

-----------------------------------------------------------------------------
(* Portfolio optimizer: recommendations, rebalance actions, results *)

\* the keys of dict(zip(symbols, ...)) in insertion order
RECURSIVE DictKeys(_)
DictKeys(symbols) ==
    IF symbols = <<>> THEN <<>>
    ELSE LET n == Len(symbols)
             front == DictKeys(SubSeq(symbols, 1, n - 1))
         IN  IF \E i \in DOMAIN front : front[i] = symbols[n] THEN front
             ELSE Append(front, symbols[n])

\* the first key with the largest value (max(), and sorted(reverse=True)[0])
FirstMaxKey(keys, d) ==
    keys[CHOOSE i \in DOMAIN keys :
             /\ \A j \in DOMAIN keys : d[keys[j]] <= d[keys[i]]
             /\ \A j \in 1..(i - 1) : d[keys[j]] < d[keys[i]]]

\* the first key with the smallest value (min())
FirstMinKey(keys, d) ==
    keys[CHOOSE i \in DOMAIN keys :
             /\ \A j \in DOMAIN keys : d[keys[j]] >= d[keys[i]]
             /\ \A j \in 1..(i - 1) : d[keys[j]] > d[keys[i]]]

\* the last key with the smallest value (the stable sorted(reverse=True)[-1])
LastMinKey(keys, d) ==
    keys[CHOOSE i \in DOMAIN keys :
             /\ \A j \in DOMAIN keys : d[keys[j]] >= d[keys[i]]
             /\ \A j \in (i + 1)..Len(keys) : d[keys[j]] > d[keys[i]]]

Recommendation(text, symbol) == [text |-> text, symbol |-> symbol]

_generate_recommendations(symbols, weights, returns, volatilities) ==
    LET keys == DictKeys(symbols)
        weight_dict == DictZip(symbols, weights)
        return_dict == DictZip(symbols, returns)
        vol_dict == DictZip(symbols, volatilities)
    IN  << Recommendation("Highest allocation", FirstMaxKey(keys, weight_dict)),
           Recommendation("Lowest allocation", LastMinKey(keys, weight_dict)),
           Recommendation("Highest expected return", FirstMaxKey(keys, return_dict)),
           Recommendation("Lowest volatility", FirstMinKey(keys, vol_dict)) >>

\* a faulty variant: the amount is target - current for a SELL as well
RebalanceActionSignedAmount(pf, asset, target_weights) ==
    LET current_weight == asset.weight
        target_weight == IF asset.symbol \in DOMAIN target_weights
                         THEN target_weights[asset.symbol] ELSE current_weight
    IN  IF target_weight = NaN
           \/ ~(Abs(target_weight - current_weight) > pf.rebalance_threshold)
        THEN <<>>
        ELSE << [symbol |-> asset.symbol,
                 action |-> IF target_weight > current_weight THEN "BUY" ELSE "SELL",
                 current_weight |-> current_weight, target_weight |-> target_weight,
                 amount |-> (target_weight - current_weight) * pf.total_value] >>

\* one asset's action, or none: abs(nan) > threshold is False
RebalanceActionOf(pf, asset, target_weights) ==
    LET current_weight == asset.weight
        target_weight == IF asset.symbol \in DOMAIN target_weights
                         THEN target_weights[asset.symbol] ELSE current_weight
    IN  IF target_weight = NaN
           \/ ~(Abs(target_weight - current_weight) > pf.rebalance_threshold)
        THEN <<>>
        ELSE IF target_weight > current_weight
        THEN << [symbol |-> asset.symbol, action |-> "BUY",
                 current_weight |-> current_weight, target_weight |-> target_weight,
                 amount |-> (target_weight - current_weight) * pf.total_value] >>
        ELSE << [symbol |-> asset.symbol, action |-> "SELL",
                 current_weight |-> current_weight, target_weight |-> target_weight,
                 amount |-> (current_weight - target_weight) * pf.total_value] >>

RECURSIVE RebalanceActionsFrom(_, _, _)
RebalanceActionsFrom(pf, assets, target_weights) ==
    IF assets = <<>> THEN <<>>
    ELSE RebalanceActionOf(pf, assets[1], target_weights)
             \o RebalanceActionsFrom(pf, Tail(assets), target_weights)

_generate_rebalance_actions(pf, target_weights) ==
    RebalanceActionsFrom(pf, pf.assets, target_weights)

OptimizationResult(name_suffix, optimized_weights, expected_return, expected_volatility, sharpe_ratio, max_drawdown, diversification_ratio, recommendations, rebalance_actions) ==
    [name_suffix |-> name_suffix, optimized_weights |-> optimized_weights,
     expected_return |-> expected_return, expected_volatility |-> expected_volatility,
     sharpe_ratio |-> sharpe_ratio, max_drawdown |-> max_drawdown,
     diversification_ratio |-> diversification_ratio,
     recommendations |-> recommendations, rebalance_actions |-> rebalance_actions]

Symbols(pf) == [i \in DOMAIN pf.assets |-> pf.assets[i].symbol]
Returns(pf) == [i \in DOMAIN pf.assets |-> pf.assets[i].expected_return]
Volatilities(pf) == [i \in DOMAIN pf.assets |-> pf.assets[i].volatility]
CurrentWeights(pf) == [i \in DOMAIN pf.assets |-> pf.assets[i].weight]

\* a faulty variant: the basic result hands out equal weights
BasicResultEqualWeights(pf, message) ==
    OptimizationResult("", DictZip(Symbols(pf), EqualWeights(Len(pf.assets))),
                       0, 0, 0, 0, Num(1), << Recommendation(message, "") >>, <<>>)

\* {asset.symbol: asset.weight for asset in portfolio.assets} and constants
_create_basic_result(pf, message) ==
    OptimizationResult("", DictZip(Symbols(pf), CurrentWeights(pf)),
                       0, 0, 0, 0, Num(1), << Recommendation(message, "") >>, <<>>)

optimize_portfolio_mpt(pf, target_return) ==
    IF Len(pf.assets) < 2
    THEN _create_basic_result(pf, "Need at least 2 assets for optimization")
    ELSE LET symbols == Symbols(pf)
             returns == Returns(pf)
             volatilities == Volatilities(pf)
             cov_matrix == _create_covariance_matrix(pf)
             raw == IF target_return # <<>>
                    THEN _optimize_for_target_return(returns, target_return[1])
                    ELSE _optimize_sharpe_ratio(returns, cov_matrix, pf.risk_free_rate)
             weights == NpScale(raw, NpSum(raw))
             portfolio_return == NpDot(weights, returns)
             portfolio_volatility == PortfolioVolatility(weights, cov_matrix)
         IN  OptimizationResult("", DictZip(symbols, weights),
                 portfolio_return,
                 portfolio_volatility,
                 NpDiv(NpSub(portfolio_return, pf.risk_free_rate), portfolio_volatility),
                 _estimate_max_drawdown(volatilities, weights),
                 NpDiv(NpDot(weights, volatilities), portfolio_volatility),
                 _generate_recommendations(symbols, weights, returns, volatilities),
                 _generate_rebalance_actions(pf, DictZip(symbols, weights)))

optimize_risk_parity(pf) ==
    IF Len(pf.assets) < 2
    THEN _create_basic_result(pf, "Need at least 2 assets for risk parity")
    ELSE LET symbols == Symbols(pf)
             volatilities == Volatilities(pf)
             cov_matrix == _create_covariance_matrix(pf)
             weights == _optimize_risk_parity(cov_matrix, volatilities)
             returns == Returns(pf)
             portfolio_return == NpDot(weights, returns)
             portfolio_volatility == PortfolioVolatility(weights, cov_matrix)
         IN  OptimizationResult(" (Risk Parity)", DictZip(symbols, weights),
                 portfolio_return,
                 portfolio_volatility,
                 NpDiv(NpSub(portfolio_return, pf.risk_free_rate), portfolio_volatility),
                 _estimate_max_drawdown(volatilities, weights),
                 NpDiv(NpDot(weights, volatilities), portfolio_volatility),
                 << Recommendation("Risk Parity achieved", ""),
                    Recommendation("Average risk contribution", ""),
                    Recommendation("Risk contribution range", "") >>,
                 _generate_rebalance_actions(pf, DictZip(symbols, weights)))

-----------------------------------------------------------------------------
(* Portfolio optimizer: stress tests *)

\* the scenarios used when the caller passes none
DefaultScenarios ==
    [name \in {"market_crash", "tech_bubble_burst", "interest_rate_hike", "geopolitical_crisis", "recovery_scenario"} |->
        CASE name = "market_crash" ->
                ("equity_shock" :> (0 - Frac(30, 100)) @@ "bond_shock" :> (0 - Frac(10, 100)) @@ "vol_increase" :> Num(2))
          [] name = "tech_bubble_burst" ->
                ("AAPL" :> (0 - Frac(40, 100)) @@ "MSFT" :> (0 - Frac(35, 100)) @@ "GOOGL" :> (0 - Frac(45, 100))
                 @@ "AMZN" :> (0 - Frac(50, 100)) @@ "TSLA" :> (0 - Frac(60, 100)) @@ "NVDA" :> (0 - Frac(55, 100)))
          [] name = "interest_rate_hike" ->
                ("rate_shock" :> Frac(2, 100) @@ "growth_stocks" :> (0 - Frac(15, 100)) @@ "value_stocks" :> Frac(5, 100))
          [] name = "geopolitical_crisis" ->
                ("global_shock" :> (0 - Frac(20, 100)) @@ "vol_increase" :> Frac(15, 10))
          [] name = "recovery_scenario" ->
                ("equity_shock" :> Frac(25, 100) @@ "vol_decrease" :> Frac(7, 10))]

EquitySymbols == {"AAPL", "MSFT", "GOOGL", "AMZN", "TSLA", "NVDA", "META", "NFLX"}
GrowthSymbols == {"TSLA", "NVDA", "AMZN", "NFLX"}
ValueSymbols == {"AAPL", "MSFT", "GOOGL"}

\* the if / elif chain: shock = 1.0, multiplied by 1 + the first matching entry
ShockOf(shocks, symbol) ==
    IF "equity_shock" \in DOMAIN shocks /\ symbol \in EquitySymbols
    THEN Num(1) + shocks["equity_shock"]
    ELSE IF "global_shock" \in DOMAIN shocks THEN Num(1) + shocks["global_shock"]
    ELSE IF symbol \in DOMAIN shocks THEN Num(1) + shocks[symbol]
    ELSE IF "growth_stocks" \in DOMAIN shocks /\ symbol \in GrowthSymbols
    THEN Num(1) + shocks["growth_stocks"]
    ELSE IF "value_stocks" \in DOMAIN shocks /\ symbol \in ValueSymbols
    THEN Num(1) + shocks["value_stocks"]
    ELSE Num(1)

\* shocks.get("vol_increase", shocks.get("vol_decrease", 1.0))
VolMultiplier(shocks) ==
    IF "vol_increase" \in DOMAIN shocks THEN shocks["vol_increase"]
    ELSE IF "vol_decrease" \in DOMAIN shocks THEN shocks["vol_decrease"]
    ELSE Num(1)

\* asset_stressed_value - asset.current_price * asset.weight, where
\* total_value / total_value is 1.0
StressedChange(asset, shock) ==
    FMul(FMul(Num(asset.current_price), shock), asset.weight)
        - FMul(Num(asset.current_price), asset.weight)

\* the record of one scenario, for a portfolio whose total_value is not 0
StressScenario(pf, shocks) ==
    LET changes == [i \in DOMAIN pf.assets |->
                        StressedChange(pf.assets[i], ShockOf(shocks, pf.assets[i].symbol))]
        squares == [i \in DOMAIN pf.assets |->
                        LET v == FMul(pf.assets[i].volatility, VolMultiplier(shocks))
                        IN  FMul(v, v)]
        stressed_value == Num(pf.total_value) + SeqSum(changes)
        loss_amount == Num(pf.total_value) - stressed_value
        loss_percentage == FDiv(loss_amount, Num(pf.total_value))
    IN  [stressed_value |-> stressed_value,
         loss_amount |-> loss_amount,
         loss_percentage |-> loss_percentage,
         stressed_volatility |-> FSqrt(SeqSum(squares)),
         survival_probability |->
             IF Num(1) - Abs(loss_percentage) > 0 THEN Num(1) - Abs(loss_percentage) ELSE 0]

\* scenarios is <<>> for None, or <<dict>>; the division total_value /
\* total_value raises ZeroDivisionError in the first scenario when total_value is 0
stress_test_portfolio(pf, scenarios) ==
    LET dict == IF scenarios = <<>> THEN DefaultScenarios ELSE scenarios[1]
    IN  IF pf.total_value = 0 /\ DOMAIN dict # {}
        THEN [raised |-> "ZeroDivisionError"]
        ELSE [raised |-> "", results |-> [name \in DOMAIN dict |-> StressScenario(pf, dict[name])]]

-----------------------------------------------------------------------------
(* Portfolio optimizer: rebalancing on technical signals *)

\* sum of the BUY strengths minus sum of the SELL strengths
NetSignal(asset_signals) ==
    SeqSum([k \in DOMAIN asset_signals |->
               IF asset_signals[k].signal = "BUY" THEN asset_signals[k].strength ELSE 0])
    - SeqSum([k \in DOMAIN asset_signals |->
               IF asset_signals[k].signal = "SELL" THEN asset_signals[k].strength ELSE 0])

\* one asset's action before the normalisation, or none
SignalActionOf(asset, signals) ==
    LET asset_signals == IF asset.symbol \in DOMAIN signals THEN signals[asset.symbol] ELSE <<>>
        net_signal == NetSignal(asset_signals)
        current_weight == asset.weight
        raised == PyMin(FMul(current_weight, Frac(12, 10)), Frac(3, 10))
        lowered == IF Frac(5, 100) > FMul(current_weight, Frac(8, 10))
                   THEN Frac(5, 100) ELSE FMul(current_weight, Frac(8, 10))
    IN  IF asset_signals = <<>> THEN <<>>
        ELSE IF net_signal > Frac(5, 10)
        THEN IF raised > current_weight
             THEN << [action |-> "BUY", symbol |-> asset.symbol,
                      current_weight |-> current_weight, target_weight |-> raised,
                      signal_strength |-> net_signal] >>
             ELSE <<>>
        ELSE IF net_signal < 0 - Frac(5, 10)
        THEN IF lowered < current_weight
             THEN << [action |-> "SELL", symbol |-> asset.symbol,
                      current_weight |-> current_weight, target_weight |-> lowered,
                      signal_strength |-> net_signal] >>
             ELSE <<>>
        ELSE <<>>

RECURSIVE SignalActionsFrom(_, _)
SignalActionsFrom(assets, signals) ==
    IF assets = <<>> THEN <<>>
    ELSE SignalActionOf(assets[1], signals) \o SignalActionsFrom(Tail(assets), signals)

\* a faulty variant: the target weights are returned as proposed
SignalRebalancingUnnormalized(pf, signals) ==
    SignalActionsFrom(pf.assets, signals)

\* the actions, their target weights divided by the sum of the target weights
signal_based_rebalancing(pf, signals) ==
    LET actions == SignalActionsFrom(pf.assets, signals)
        total_weight == SeqSum([k \in DOMAIN actions |-> actions[k].target_weight])
    IN  IF total_weight > 0
        THEN [k \in DOMAIN actions |->
                 [actions[k] EXCEPT !.target_weight = FDiv(@, total_weight)]]
        ELSE actions

-----------------------------------------------------------------------------
(* Portfolio optimizer: technical signals of the assets *)

\* sorted(category_signals, key=lambda x: x.strength, reverse=True): stable,
\* equal strengths keep their order
RECURSIVE SortedByStrength(_)
SortedByStrength(results) ==
    IF results = <<>> THEN <<>>
    ELSE LET i == CHOOSE i \in DOMAIN results :
                      /\ \A j \in DOMAIN results : results[j].strength <= results[i].strength
                      /\ \A j \in 1..(i - 1) : results[j].strength < results[i].strength
         IN  << results[i] >>
                 \o SortedByStrength(SubSeq(results, 1, i - 1) \o SubSeq(results, i + 1, Len(results)))

\* the three strongest results of each category, in the order of analysis.values()
StrongestSignals(analysis) ==
    PySlice(SortedByStrength(analysis.trend), 0, 3)
        \o PySlice(SortedByStrength(analysis.momentum), 0, 3)
        \o PySlice(SortedByStrength(analysis.volatility), 0, 3)
        \o PySlice(SortedByStrength(analysis.volume), 0, 3)

\* get_comprehensive_analysis on the columns of the fetched rows
RowsAnalysis(data_rows) ==
    get_comprehensive_analysis(Closes(data_rows), Highs(data_rows, "full"),
                               Lows(data_rows, "full"), Volumes(data_rows, "full"))

\* data: symbol -> the rows data_service.fetch returns for it. The result is
\* the returned signals and the portfolio as the call leaves it.
analyze_portfolio_signals(pf, data) ==
    LET symbols == {pf.assets[i].symbol : i \in DOMAIN pf.assets}
        analysis == [s \in {t \in symbols : Len(data[t]) >= 20} |-> RowsAnalysis(data[s])]
    IN  [signals |-> [s \in symbols |->
                         IF Len(data[s]) < 20 THEN <<>> ELSE StrongestSignals(analysis[s])],
         portfolio |-> [pf EXCEPT !.assets = [i \in DOMAIN pf.assets |->
                         IF Len(data[pf.assets[i].symbol]) < 20 THEN pf.assets[i]
                         ELSE [pf.assets[i] EXCEPT !.signal_strength =
                                  get_weighted_signal(analysis[pf.assets[i].symbol],
                                                      DefaultWeights).value]]]]

-----------------------------------------------------------------------------
(* The optimizer as a state machine: a caller builds a Portfolio, with      *)
(* create_portfolio or by appending Assets of its own, and calls one of the  *)
(* optimizers on it.                                                         *)

\* most assets in a portfolio
MaxAssets == 3

\* create_portfolio's default initial_value
DefaultInitialValue == 100000

SymbolChoices == {"AAPL", "TSLA", "XYZ"}

\* any list of symbols, repeated symbols included
SymbolLists == UNION {[1..n -> SymbolChoices] : n \in 0..MaxAssets}

HashSeeds == {0, 1}

\* the k-th Asset a caller appends by hand is for the k-th of these symbols
DirectSymbols == <<"AAPL", "TSLA", "XYZ", "MSFT">>

\* statistics and current weight of an Asset built by hand; the third is
\* Asset(symbol, expected_return=0.03) with the dataclass defaults, the fourth
\* has a negative volatility (the dataclass accepts any float)
AssetProfiles ==
    {[expected_return |-> Frac(12, 100), volatility |-> Frac(30, 100), weight |-> Frac(5, 10)],
     [expected_return |-> Frac(8, 100), volatility |-> Frac(20, 100), weight |-> Frac(5, 10)],
     [expected_return |-> Frac(3, 100), volatility |-> 0, weight |-> 0],
     [expected_return |-> Frac(2, 100), volatility |-> 0 - Frac(25, 100), weight |-> Frac(25, 100)],
     [expected_return |-> Frac(15, 100), volatility |-> Frac(40, 100), weight |-> Frac(5, 10)]}

\* pairwise correlations a caller writes into the correlation map
CorrelationChoices == {0 - Frac(5, 10), Frac(3, 10)}

\* target_return: None, or a float
TargetReturns ==
    {<<>>, <<0>>, <<Frac(10, 100)>>, <<Frac(50, 100)>>, <<0 - Frac(5, 100)>>}

OptInit ==
    /\ bars = <<>>
    /\ call = NoCall
    /\ SigIdle
    /\ OptIdle
    /\ CacheIdle
    /\ AgentIdle
    /\ BacktestIdle
    /\ JobsIdle

CreatePortfolio(seed, symbols) ==
    /\ portfolio = NoPortfolio
    /\ opt_result = NoResult
    /\ portfolio' = create_portfolio(seed, symbols, DefaultInitialValue)
    /\ UNCHANGED <<opt_result, indVars, sigVars, cacheVars, agentVars, btVars, jobVars>>

\* portfolio.assets.append(Asset(...))
AddAsset(profile) ==
    /\ Len(portfolio.assets) < MaxAssets
    /\ portfolio' = [portfolio EXCEPT !.assets =
           Append(@, Asset(DirectSymbols[Len(portfolio.assets) + 1], 0,
                           profile.expected_return, profile.volatility, profile.weight))]
    /\ opt_result' = NoResult
    /\ UNCHANGED <<indVars, sigVars, cacheVars, agentVars, btVars, jobVars>>

\* the caller fills the correlation_matrix of a two-asset portfolio: 1.0 on the
\* diagonal, corr for both orderings of the pair. A negative corr is written
\* for volatilities 0.20 and 0.40 only: with the others the risk-parity weights
\* leave the range of the fixed-point numbers
UniformCorrelations(symbols, corr) ==
    [k \in {<<symbols[i], symbols[j]>> : i \in DOMAIN symbols, j \in DOMAIN symbols} |->
        IF k[1] = k[2] THEN Num(1) ELSE corr]

SetCorrelations(corr) ==
    /\ Len(portfolio.assets) = 2
    /\ corr < 0 => {portfolio.assets[i].volatility : i \in 1..2} = {Frac(20, 100), Frac(40, 100)}
    /\ portfolio.correlation_matrix # UniformCorrelations(Symbols(portfolio), corr)
    /\ portfolio' = [portfolio EXCEPT
           !.correlation_matrix = UniformCorrelations(Symbols(portfolio), corr)]
    /\ opt_result' = NoResult
    /\ UNCHANGED <<indVars, sigVars, cacheVars, agentVars, btVars, jobVars>>

\* scenarios: None, or a dict of one scenario: a per-symbol entry next to an
\* equity-wide one, the same global shock for every asset, a per-symbol entry
\* next to a category one
ScenarioChoices ==
    {<<>>,
     <<[mixed |-> ("AAPL" :> (0 - Frac(40, 100)) @@ "equity_shock" :> (0 - Frac(10, 100)))]>>,
     <<[uniform |-> ("global_shock" :> (0 - Frac(20, 100)))]>>,
     <<[sector |-> ("TSLA" :> (0 - Frac(10, 100)) @@ "growth_stocks" :> (0 - Frac(15, 100)))]>>}

\* 20 flat bars and a wide one
FetchedRows == [i \in 1..20 |-> FlatBar] \o << WideBar >>

\* what the data service returns: nothing for any symbol, or FetchedRows for
\* AAPL and TSLA and nothing for the others
FetchChoices ==
    {[s \in {"AAPL", "TSLA", "XYZ", "MSFT"} |-> <<>>],
     [s \in {"AAPL", "TSLA", "XYZ", "MSFT"} |-> IF s \in {"AAPL", "TSLA"} THEN FetchedRows ELSE <<>>]}

\* the signals are analysed for portfolios of create_portfolio's assets
AnalyzePortfolioSignals(data) ==
    /\ opt_result = NoResult
    /\ portfolio.total_value = DefaultInitialValue
    /\ \A i \in DOMAIN portfolio.assets : portfolio.assets[i].current_price > 0
    /\ LET analysed == analyze_portfolio_signals(portfolio, data)
       IN  /\ opt_result' = [op |-> "analyze_signals", result |-> analysed.signals]
           /\ portfolio' = analysed.portfolio
    /\ UNCHANGED <<indVars, sigVars, cacheVars, agentVars, btVars, jobVars>>

IndicatorSignal(signal, strength) == [signal |-> signal, strength |-> strength]

\* signals: symbol -> list of IndicatorResult, of which signal and strength are read
SignalChoices ==
    {[s \in {} |-> <<>>],
     [AAPL |-> <<IndicatorSignal("BUY", Frac(8, 10))>>, TSLA |-> <<IndicatorSignal("SELL", Frac(9, 10))>>],
     [AAPL |-> <<IndicatorSignal("BUY", Frac(3, 10)), IndicatorSignal("BUY", Frac(3, 10))>>, TSLA |-> <<IndicatorSignal("BUY", Frac(5, 10))>>, XYZ |-> <<IndicatorSignal("SELL", Frac(4, 10)), IndicatorSignal("HOLD", Frac(9, 10)), IndicatorSignal("SELL", Frac(4, 10))>>],
     [AAPL |-> <<IndicatorSignal("BUY", Frac(8, 10)), IndicatorSignal("SELL", Frac(9, 10))>>, TSLA |-> <<>>, XYZ |-> <<IndicatorSignal("BUY", Frac(9, 10))>>, MSFT |-> <<IndicatorSignal("SELL", Num(1))>>]}

SignalBasedRebalancing(signals) ==
    /\ opt_result = NoResult
    /\ opt_result' = [op |-> "signal_rebalancing", signals |-> signals,
                      result |-> signal_based_rebalancing(portfolio, signals)]
    /\ UNCHANGED <<portfolio, indVars, sigVars, cacheVars, agentVars, btVars, jobVars>>

StressTest(scenarios) ==
    /\ opt_result = NoResult
    /\ opt_result' = [op |-> "stress", scenarios |-> scenarios,
                      result |-> stress_test_portfolio(portfolio, scenarios)]
    /\ UNCHANGED <<portfolio, indVars, sigVars, cacheVars, agentVars, btVars, jobVars>>

\* one call per portfolio: the optimizers do not change the portfolio
OptimizeMpt(target_return) ==
    /\ opt_result = NoResult
    /\ opt_result' = [op |-> "mpt", target_return |-> target_return,
                      result |-> optimize_portfolio_mpt(portfolio, target_return)]
    /\ UNCHANGED <<portfolio, indVars, sigVars, cacheVars, agentVars, btVars, jobVars>>

\* the iteration is run on non-negative volatilities only: with a negative one
\* its weights leave the range of the fixed-point numbers
OptimizeRiskParity ==
    /\ opt_result = NoResult
    /\ \A i \in DOMAIN portfolio.assets : portfolio.assets[i].volatility >= 0
    /\ opt_result' = [op |-> "risk_parity",
                      result |-> optimize_risk_parity(portfolio)]
    /\ UNCHANGED <<portfolio, indVars, sigVars, cacheVars, agentVars, btVars, jobVars>>

OptNext ==
    \/ \E seed \in HashSeeds, symbols \in SymbolLists : CreatePortfolio(seed, symbols)
    \/ \E profile \in AssetProfiles : AddAsset(profile)
    \/ \E corr \in CorrelationChoices : SetCorrelations(corr)
    \/ \E target_return \in TargetReturns : OptimizeMpt(target_return)
    \/ OptimizeRiskParity
    \/ \E scenarios \in ScenarioChoices : StressTest(scenarios)
    \/ \E signals \in SignalChoices : SignalBasedRebalancing(signals)
    \/ \E data \in FetchChoices : AnalyzePortfolioSignals(data)

SpecOpt == OptInit /\ [][OptNext]_vars

-----------------------------------------------------------------------------
(* Properties of the optimizer *)

Optimized == opt_result.op \in {"mpt", "risk_parity"}

\* sum(optimized_weights.values())
WeightSum(result) ==
    DictSum(result.optimized_weights, DOMAIN result.optimized_weights)

\* the sum is 1 up to the rounding of one unit per weight
SumsToOne(result) ==
    /\ WeightSum(result) # NaN
    /\ Abs(WeightSum(result) - Num(1)) <= Cardinality(DOMAIN result.optimized_weights)

\* C1: every OptimizationResult of optimize_portfolio_mpt (with or without a
\* target return) and of optimize_risk_parity, for any Portfolio, fewer than 2
\* assets included, has optimized weights that sum to 1.
C1_WeightsSumToOne == Optimized => SumsToOne(opt_result.result)

BasicMessages ==
    {"Need at least 2 assets for optimization", "Need at least 2 assets for risk parity"}

IsBasicResult(result, pf) ==
    /\ DOMAIN result.optimized_weights = {pf.assets[i].symbol : i \in DOMAIN pf.assets}
    /\ \A i \in DOMAIN pf.assets :
           result.optimized_weights[pf.assets[i].symbol] = pf.assets[i].weight
    /\ result.expected_return = 0
    /\ result.expected_volatility = 0
    /\ result.rebalance_actions = <<>>
    /\ Len(result.recommendations) = 1
    /\ result.recommendations[1].text \in BasicMessages

\* C2: for a Portfolio with fewer than 2 assets both optimizers return the
\* basic result: the assets' current weights, expected return 0, expected
\* volatility 0, no rebalance actions, and the one "need at least 2 assets"
\* recommendation.
C2_BasicResultBelowTwoAssets ==
    Optimized /\ Len(portfolio.assets) < 2 => IsBasicResult(opt_result.result, portfolio)

C2_Witness ==
    /\ opt_result.op = "risk_parity"
    /\ Len(portfolio.assets) = 1
    /\ portfolio.assets[1].weight = Frac(5, 10)
    /\ opt_result.result.optimized_weights["AAPL"] = Frac(5, 10)
    /\ opt_result.result.recommendations[1].text = "Need at least 2 assets for risk parity"

IsFinite(x) == x # NaN

\* C12: when an asset's volatility is zero or negative, optimize_portfolio_mpt
\* without a target return allocates equal weights 1/n, and the Sharpe ratio,
\* the volatility and the diversification ratio of the result are finite.
C12_InvalidVolatilityFallsBackToEqualWeights ==
    (/\ opt_result.op = "mpt"
     /\ opt_result.target_return = <<>>
     /\ Len(portfolio.assets) >= 2
     /\ \E i \in DOMAIN portfolio.assets : portfolio.assets[i].volatility <= 0)
    => LET r == opt_result.result
       IN  /\ \A s \in DOMAIN r.optimized_weights :
                  r.optimized_weights[s] = Frac(1, Len(portfolio.assets))
           /\ IsFinite(r.sharpe_ratio)
           /\ IsFinite(r.expected_volatility)
           /\ IsFinite(r.diversification_ratio)

DistinctSymbols(pf) ==
    \A i, j \in DOMAIN pf.assets : pf.assets[i].symbol = pf.assets[j].symbol => i = j

\* max - min of the per-asset risk contributions at the given weights
RiskSpread(weights, cov_matrix) ==
    LET rc == RiskContributions(weights, cov_matrix)
    IN  IF \E i \in DOMAIN rc : rc[i] = NaN THEN NaN ELSE SeqMax(rc) - SeqMin(rc)

\* rounding allowance when two spreads are compared
SpreadTolerance == 2 * 10

\* C13: for a portfolio of at least 2 assets with positive volatilities and
\* pairwise correlations in [-1, 1], the weights of the risk-parity iteration
\* have a spread of risk contributions no larger than the spread at equal weights.
C13_RiskParityDoesNotWidenSpread ==
    (/\ opt_result.op = "risk_parity"
     /\ Len(portfolio.assets) >= 2
     /\ DistinctSymbols(portfolio)
     /\ \A i \in DOMAIN portfolio.assets : portfolio.assets[i].volatility > 0)
    => LET cov_matrix == _create_covariance_matrix(portfolio)
           weights == [i \in DOMAIN portfolio.assets |->
                           opt_result.result.optimized_weights[portfolio.assets[i].symbol]]
           before == RiskSpread(EqualWeights(Len(portfolio.assets)), cov_matrix)
           after == RiskSpread(weights, cov_matrix)
       IN  before # NaN => (after # NaN /\ after <= before + SpreadTolerance)

StressTested == opt_result.op = "stress" /\ opt_result.result.raised = ""

ScenariosOf(scenarios) == IF scenarios = <<>> THEN DefaultScenarios ELSE scenarios[1]

\* the shock the precedence per-symbol > category > equity-wide selects
ShockByPrecedence(shocks, symbol) ==
    IF symbol \in DOMAIN shocks THEN Num(1) + shocks[symbol]
    ELSE IF "growth_stocks" \in DOMAIN shocks /\ symbol \in GrowthSymbols
    THEN Num(1) + shocks["growth_stocks"]
    ELSE IF "value_stocks" \in DOMAIN shocks /\ symbol \in ValueSymbols
    THEN Num(1) + shocks["value_stocks"]
    ELSE IF "equity_shock" \in DOMAIN shocks /\ symbol \in EquitySymbols
    THEN Num(1) + shocks["equity_shock"]
    ELSE IF "global_shock" \in DOMAIN shocks THEN Num(1) + shocks["global_shock"]
    ELSE Num(1)

\* C14: in every scenario each asset gets exactly one shock, the first match of
\* per-symbol entry, category entry (growth_stocks / value_stocks), equity-wide
\* entry (equity_shock / global_shock): the stressed value is the one these
\* shocks give.
C14_ShockPrecedence ==
    StressTested =>
        \A name \in DOMAIN opt_result.result.results :
            LET shocks == ScenariosOf(opt_result.scenarios)[name]
                changes == [i \in DOMAIN portfolio.assets |->
                    StressedChange(portfolio.assets[i],
                                   ShockByPrecedence(shocks, portfolio.assets[i].symbol))]
            IN  opt_result.result.results[name].stressed_value
                    = Num(portfolio.total_value) + SeqSum(changes)

\* weight x total value x shock fraction, in thousandths of a currency unit
ContributionChange(pf, asset, shock) == pf.total_value * FMul(asset.weight, shock - Num(1))

\* C15: the stressed value is the total value plus the sum over the assets of
\* weight x total value x shock fraction (up to the rounding of one product per
\* asset), and when the weights sum to 1 and every asset receives the shock
\* fraction s, loss_percentage is -s.
C15_ShockOnContribution ==
    StressTested =>
        \A name \in DOMAIN opt_result.result.results :
            LET shocks == ScenariosOf(opt_result.scenarios)[name]
                changes == [i \in DOMAIN portfolio.assets |->
                    ContributionChange(portfolio, portfolio.assets[i],
                                       ShockOf(shocks, portfolio.assets[i].symbol))]
                applied == {ShockOf(shocks, portfolio.assets[i].symbol) - Num(1) :
                                i \in DOMAIN portfolio.assets}
            IN  /\ Abs(opt_result.result.results[name].stressed_value
                         - (Num(portfolio.total_value) + SeqSum(changes)))
                       <= portfolio.total_value * Len(portfolio.assets)
                /\ \A s \in applied :
                       applied = {s} /\ Abs(SeqSum(CurrentWeights(portfolio)) - Num(1)) <= Len(portfolio.assets)
                       => Abs(opt_result.result.results[name].loss_percentage + s) <= Len(portfolio.assets)

\* the deviation of asset i's optimized weight from its current weight
Deviation(i) ==
    opt_result.result.optimized_weights[portfolio.assets[i].symbol] - portfolio.assets[i].weight

\* |target - current| > rebalance_threshold, False for a nan target
OverThreshold(i) ==
    /\ opt_result.result.optimized_weights[portfolio.assets[i].symbol] # NaN
    /\ Abs(Deviation(i)) > portfolio.rebalance_threshold

\* C16: the rebalance actions of an optimization hold one action per asset whose
\* |target - current| is strictly greater than the rebalance threshold, in the
\* order of the assets, and none for the others; the action is BUY when
\* target > current and SELL otherwise, and its amount is |target - current| x
\* total value.
C16_RebalanceActionsBeyondThreshold ==
    Optimized /\ Len(portfolio.assets) >= 2 =>
        LET actions == opt_result.result.rebalance_actions
            emitting == {i \in DOMAIN portfolio.assets : OverThreshold(i)}
            PositionOf(i) == Cardinality({j \in emitting : j <= i})
        IN  /\ Len(actions) = Cardinality(emitting)
            /\ \A i \in emitting :
                   LET a == actions[PositionOf(i)]
                   IN  /\ a.symbol = portfolio.assets[i].symbol
                       /\ a.action = IF Deviation(i) > 0 THEN "BUY" ELSE "SELL"
                       /\ a.current_weight = portfolio.assets[i].weight
                       /\ a.target_weight = portfolio.assets[i].weight + Deviation(i)
                       /\ a.amount = Abs(Deviation(i)) * portfolio.total_value

C16_Witness ==
    /\ Optimized
    /\ Len(portfolio.assets) = MaxAssets
    /\ \E i \in DOMAIN portfolio.assets : ~OverThreshold(i)
    /\ \E k, m \in DOMAIN opt_result.result.rebalance_actions :
           /\ opt_result.result.rebalance_actions[k].action = "BUY"
           /\ opt_result.result.rebalance_actions[m].action = "SELL"
           /\ opt_result.result.rebalance_actions[k].amount > 0
           /\ opt_result.result.rebalance_actions[m].amount > 0

\* C17: whenever signal_based_rebalancing returns at least one action, the
\* target weights of the returned actions sum to 1 (up to the rounding of one
\* division per action).
C17_SignalTargetsSumToOne ==
    opt_result.op = "signal_rebalancing" /\ opt_result.result # <<>> =>
        LET actions == opt_result.result
            total == SeqSum([k \in DOMAIN actions |-> actions[k].target_weight])
        IN  Abs(total - Num(1)) <= Len(actions)

C17_Witness ==
    /\ opt_result.op = "signal_rebalancing"
    /\ Len(opt_result.result) >= 2
    /\ \E k, m \in DOMAIN opt_result.result :
           /\ opt_result.result[k].action = "BUY"
           /\ opt_result.result[m].action = "SELL"
           /\ opt_result.result[k].target_weight # opt_result.result[m].target_weight
           /\ opt_result.result[k].current_weight + opt_result.result[m].current_weight < Num(1)

\* the portfolio is as create_portfolio returned it
FreshlyCreated ==
    /\ portfolio.total_value = DefaultInitialValue
    /\ \A i \in DOMAIN portfolio.assets : portfolio.assets[i].current_price > 0
    /\ \E seed \in HashSeeds :
           portfolio = create_portfolio(seed, Symbols(portfolio), DefaultInitialValue)

\* C18: for any list of symbols, repeated symbols included, the correlation map
\* of the portfolio create_portfolio returns has an entry for every pair of
\* symbols, is symmetric, is 1.0 on the diagonal and holds values in [-1, 1].
C18_CorrelationMapWellFormed ==
    FreshlyCreated =>
        LET corr == portfolio.correlation_matrix
            syms == {portfolio.assets[i].symbol : i \in DOMAIN portfolio.assets}
        IN  /\ DOMAIN corr = syms \X syms
            /\ \A a \in syms, b \in syms :
                   /\ corr[<<a, b>>] = corr[<<b, a>>]
                   /\ a = b => corr[<<a, b>>] = Num(1)
                   /\ 0 - Num(1) <= corr[<<a, b>>] /\ corr[<<a, b>>] <= Num(1)

C18_Witness ==
    /\ FreshlyCreated
    /\ Len(portfolio.assets) = MaxAssets
    /\ ~DistinctSymbols(portfolio)
    /\ \E i, j \in DOMAIN portfolio.assets :
           /\ portfolio.assets[i].symbol # portfolio.assets[j].symbol
           /\ portfolio.correlation_matrix[<<portfolio.assets[i].symbol, portfolio.assets[j].symbol>>] < Num(1)

\* C19: analyze_portfolio_signals, optimize_portfolio_mpt, optimize_risk_parity,
\* signal_based_rebalancing and stress_test_portfolio leave the Portfolio they
\* are given, and its assets, unchanged.
C19_OperationsLeavePortfolioUnchanged ==
    [][opt_result = NoResult /\ opt_result' # NoResult => portfolio' = portfolio]_vars

-----------------------------------------------------------------------------
(* Knowledge cache: summaries kept in Redis, or in a dict of the process     *)
(* when Redis cannot be used                                                 *)

\* f"kc:v1:sym:{symbol}:g:{granularity}", as its colon-separated parts
_make_key(symbol, granularity) == <<"kc", "v1", "sym", symbol, "g", granularity>>

\* a dict is the list of its items; a key is its type and its text
DictItem(key_type, key, value) == [key_type |-> key_type, key |-> key, value |-> value]

\* json.loads(json.dumps(payload)): every key comes back as a str
JsonRoundTrip(payload) == [i \in DOMAIN payload |-> [payload[i] EXCEPT !.key_type = "str"]]

None == [found |-> FALSE]
Found(payload) == [found |-> TRUE, payload |-> payload]

\* the server's GET: the value of a key that has not expired, or nothing
RedisGet(c, key) ==
    IF key \in DOMAIN c.redis /\ c.now < c.redis[key].expires_at
    THEN Found(c.redis[key].payload) ELSE None

\* whether this call on the client returns rather than raises: the server
\* answers, and SETEX accepts the expire time
RedisAnswers(c) == c.client /\ c.reachable

\* the item of the fallback dict that get_summary returns, popping an expired one
FallbackGet(c, key) ==
    IF key \notin DOMAIN c.fallback THEN [result |-> None, fallback |-> c.fallback]
    ELSE IF c.now > c.fallback[key].expires_at
    THEN [result |-> None,
          fallback |-> [k \in DOMAIN c.fallback \ {key} |-> c.fallback[k]]]
    ELSE [result |-> Found(c.fallback[key].payload), fallback |-> c.fallback]

\* the value returned and the cache as the call leaves it
get_summary(c, symbol, granularity) ==
    LET key == _make_key(symbol, granularity)
        data == IF RedisAnswers(c) THEN RedisGet(c, key) ELSE None
        item == FallbackGet(c, key)
    IN  IF data.found THEN [result |-> data, cache |-> c]
        ELSE [result |-> item.result, cache |-> [c EXCEPT !.fallback = item.fallback]]

\* the cache as the call leaves it
set_summary(c, symbol, granularity, payload, ttl_s) ==
    LET key == _make_key(symbol, granularity)
    IN  IF RedisAnswers(c) /\ ttl_s > 0
        THEN [c EXCEPT !.redis = (key :> [expires_at |-> c.now + ttl_s,
                                          payload |-> JsonRoundTrip(payload)]) @@ @]
        ELSE [c EXCEPT !.fallback = (key :> [expires_at |-> c.now + ttl_s,
                                             payload |-> payload]) @@ @]

\* the clock runs from 0 to MaxClock seconds
MaxClock == 2

CacheSymbols == {"AAPL"}
Granularities == {"daily", "minute"}

\* {"x": 1} and {1: 2}
Payloads == { << DictItem("str", "x", 1) >>, << DictItem("int", "1", 2) >> }

TtlChoices == {1, 2}

CacheInit ==
    /\ bars = <<>>
    /\ call = NoCall
    /\ SigIdle
    /\ OptIdle
    /\ cache \in {KnowledgeCache(client) : client \in BOOLEAN}
    /\ AgentIdle
    /\ BacktestIdle
    /\ JobsIdle

SetSummary(symbol, granularity, payload, ttl_s) ==
    /\ cache' = [set_summary(cache, symbol, granularity, payload, ttl_s) EXCEPT
                    !.last_set = (_make_key(symbol, granularity) :>
                                     [payload |-> payload, at |-> cache.now, ttl_s |-> ttl_s]) @@ @,
                    !.last_get = <<>>]
    /\ UNCHANGED <<indVars, sigVars, optVars, agentVars, btVars, jobVars>>

GetSummary(symbol, granularity) ==
    /\ cache.last_get = <<>>
    /\ LET got == get_summary(cache, symbol, granularity)
       IN  cache' = [got.cache EXCEPT
                        !.last_get = << [key |-> _make_key(symbol, granularity),
                                         result |-> got.result] >>]
    /\ UNCHANGED <<indVars, sigVars, optVars, agentVars, btVars, jobVars>>

\* a second passes
Tick ==
    /\ cache.now < MaxClock
    /\ cache' = [cache EXCEPT !.now = @ + 1, !.last_get = <<>>]
    /\ UNCHANGED <<indVars, sigVars, optVars, agentVars, btVars, jobVars>>

\* the Redis server goes away, or comes back
ReachabilityChanges ==
    /\ cache.client
    /\ cache' = [cache EXCEPT !.reachable = ~@, !.last_get = <<>>]
    /\ UNCHANGED <<indVars, sigVars, optVars, agentVars, btVars, jobVars>>

CacheNext ==
    \/ \E symbol \in CacheSymbols, granularity \in Granularities, payload \in Payloads, ttl_s \in TtlChoices : SetSummary(symbol, granularity, payload, ttl_s)
    \/ \E symbol \in CacheSymbols, granularity \in Granularities : GetSummary(symbol, granularity)
    \/ Tick
    \/ ReachabilityChanges

SpecCache == CacheInit /\ [][CacheNext]_vars

-----------------------------------------------------------------------------
(* Properties of the knowledge cache *)

\* C20: a get_summary after a set_summary of the same symbol and granularity
\* returns the payload that was set while less than ttl_s seconds have passed
\* since the set, and returns None and leaves no entry in the fallback dict
\* once more than ttl_s seconds have passed, whatever the state of Redis.
C20_GetAfterSet ==
    cache.last_get # <<>> /\ cache.last_get[1].key \in DOMAIN cache.last_set =>
        LET key == cache.last_get[1].key
            set == cache.last_set[key]
        IN  /\ cache.now < set.at + set.ttl_s => cache.last_get[1].result = Found(set.payload)
            /\ cache.now > set.at + set.ttl_s =>
                   cache.last_get[1].result = None /\ key \notin DOMAIN cache.fallback

\* C27: under any interleaving of set_summary and get_summary with Redis failing
\* and recovering in between, get_summary for a key returns None or the payload
\* of the most recent set_summary for that key (as JSON gives it back), never
\* the payload of an earlier set_summary.
C27_NeverAnEarlierPayload ==
    cache.last_get # <<>> /\ cache.last_get[1].result.found =>
        /\ cache.last_get[1].key \in DOMAIN cache.last_set
        /\ JsonRoundTrip(cache.last_get[1].result.payload)
               = JsonRoundTrip(cache.last_set[cache.last_get[1].key].payload)

C29_SignalTargetsWithinCaps ==
    opt_result.op = "signal_rebalancing" =>
        \A k \in DOMAIN opt_result.result :
            LET a == opt_result.result[k]
            IN  /\ a.action = "BUY" =>
                       a.target_weight > a.current_weight /\ a.target_weight <= Frac(30, 100)
                /\ a.action = "SELL" =>
                       a.target_weight < a.current_weight /\ a.target_weight >= Frac(5, 100)

-----------------------------------------------------------------------------
(* Agent weights API: POST /agents/weights normalises the submitted weights  *)
(* and upserts them, GET /agents/weights lists the table                     *)

\* max(0.0, float(item.get("weight", 0.0)))
ClampedWeight(item) == IF item.weight > 0 THEN item.weight ELSE 0

\* sum(...) or 1.0
ClampedTotal(items) ==
    LET total == SeqSum([k \in DOMAIN items |-> ClampedWeight(items[k])])
    IN  IF total = 0 THEN Num(1) ELSE total

\* the list set_weights builds, stores and returns
Normalized(items) ==
    [k \in DOMAIN items |->
        [agent |-> items[k].agent,
         weight |-> FDiv(ClampedWeight(items[k]), ClampedTotal(items)),
         version |-> "v1"]]

\* AgentWeightRepository.upsert_many: a row per agent, inserted or overwritten
RECURSIVE upsert_many(_, _)
upsert_many(table, items) ==
    IF items = <<>> THEN table
    ELSE upsert_many((items[1].agent :> [weight |-> items[1].weight,
                                          version |-> items[1].version]) @@ table,
                     Tail(items))

\* AgentWeightRepository.get_all: the rows of the table
get_all(table) ==
    {[agent |-> a, weight |-> table[a].weight, version |-> table[a].version] : a \in DOMAIN table}

HasPositiveWeight(items) == \E k \in DOMAIN items : items[k].weight > 0

\* most items in a payload
MaxItems == 2

Agents == {"primary", "investor_patterns", "sentiment_tailwinds"}

SubmittedWeights == {0 - Frac(5, 10), Frac(3, 10), Frac(5, 10)}

\* payloads {"weights": [...]} of at most MaxItems items, no agent named twice
WeightPayloads ==
    {items \in UNION {[1..n -> [agent : Agents, weight : SubmittedWeights]] : n \in 0..MaxItems} :
        \A i, j \in DOMAIN items : items[i].agent = items[j].agent => i = j}

AgentInit ==
    /\ bars = <<>>
    /\ call = NoCall
    /\ SigIdle
    /\ OptIdle
    /\ CacheIdle
    /\ AgentIdle
    /\ BacktestIdle
    /\ JobsIdle

\* POST /agents/weights
SetWeights(items) ==
    /\ agent_api' = [table |-> upsert_many(agent_api.table, Normalized(items)),
                     response |-> [op |-> "post", submitted |-> items,
                                   weights |-> Normalized(items)],
                     only_positive |-> agent_api.only_positive /\ HasPositiveWeight(items)]
    /\ UNCHANGED <<indVars, sigVars, optVars, cacheVars, btVars, jobVars>>

\* GET /agents/weights, after a POST
GetWeights ==
    /\ agent_api.response.op = "post"
    /\ agent_api' = [agent_api EXCEPT !.response =
                        [op |-> "get", submitted |-> agent_api.response.submitted,
                         rows |-> get_all(agent_api.table)]]
    /\ UNCHANGED <<indVars, sigVars, optVars, cacheVars, btVars, jobVars>>

AgentNext ==
    \/ \E items \in WeightPayloads : SetWeights(items)
    \/ GetWeights

SpecAgents == AgentInit /\ [][AgentNext]_vars

-----------------------------------------------------------------------------
(* Properties of the agent weights API *)

\* C21: a POST with at least one positive weight returns weights that are not
\* negative and sum to 1 (up to the rounding of one division per item), and the
\* GET that follows it returns as many entries as were submitted, whatever
\* POSTs happened before.
C21_PostNormalizesAndGetCounts ==
    LET r == agent_api.response
    IN  /\ r.op = "post" /\ HasPositiveWeight(r.submitted) =>
               /\ \A k \in DOMAIN r.weights : r.weights[k].weight >= 0
               /\ Abs(SeqSum([k \in DOMAIN r.weights |-> r.weights[k].weight]) - Num(1))
                      <= Len(r.weights)
        /\ r.op = "get" /\ HasPositiveWeight(r.submitted) =>
               Cardinality(r.rows) = Len(r.submitted)

\* C26: after any sequence of POSTs that each hold a positive weight, the
\* weights GET returns sum to 1 (up to the rounding of one division per row).
C26_StoredWeightsSumToOne ==
    LET r == agent_api.response
    IN  r.op = "get" /\ agent_api.only_positive =>
            Abs(SumOver([a \in DOMAIN agent_api.table |-> agent_api.table[a].weight],
                        DOMAIN agent_api.table) - Num(1))
                <= Cardinality(DOMAIN agent_api.table)

-----------------------------------------------------------------------------
(* TradingService: the decision the backtest asks for at every bar.  The     *)
(* rows it decides on come from DataService.fetch for a fixed date range, a  *)
(* web query whose answer the service does not control                       *)

PyMax(a, b) == IF b > a THEN b ELSE a

\* int(x): the integer part, towards zero, as a plain integer
PyInt(x) == IF x >= 0 THEN x \div SC ELSE 0 - ((0 - x) \div SC)

\* prices[-1] - prices[0]
PriceChange(market_data) == Last(market_data).close - market_data[1].close

LlmAction(market_data) ==
    IF PriceChange(market_data) > Num(1) THEN "BUY"
    ELSE IF PriceChange(market_data) < 0 - Num(1) THEN "SELL"
    ELSE "HOLD"

LlmConfidence(action) ==
    IF action = "BUY" THEN Frac(80, 100) ELSE IF action = "SELL" THEN Frac(75, 100) ELSE Frac(60, 100)

\* max(1, int(cash * 0.05 / current_price)) unless the action is HOLD
LlmQuantity(market_data, cash) ==
    IF LlmAction(market_data) # "HOLD"
    THEN Num(PyMax(1, PyInt(FDiv(FMul(cash, Frac(5, 100)), Last(market_data).close))))
    ELSE 0

_llm_decide(market_data, cash) ==
    IF Len(market_data) >= 2
    THEN [action |-> LlmAction(market_data), quantity |-> LlmQuantity(market_data, cash),
          confidence |-> LlmConfidence(LlmAction(market_data)), reason |-> "trend"]
    ELSE [action |-> "HOLD", quantity |-> 0, confidence |-> Frac(5, 10), reason |-> "Minimal data available"]

\* TradingService.decide with granularity "daily", rows being what fetch returned
decide(rows, cash) ==
    IF Len(rows) < 2
    THEN [action |-> "HOLD", quantity |-> 0, confidence |-> Frac(5, 10), reason |-> "insufficient-data"]
    ELSE _llm_decide(rows, cash)

-----------------------------------------------------------------------------
(* BacktestService.run, one step per bar of the loop *)

fee_rate == Frac(1, 1000)

\* the result of a range without data
NoDataResult(initial_cash) ==
    [final_cash |-> initial_cash, trades |-> <<>>, snapshots |-> <<>>, summary |-> [text |-> "no data"],
     max_drawdown |-> 0, buy_hold_return |-> 0, strategy_return |-> 0, total_fees |-> 0]

\* the locals of run when the loop is entered
LoopEntry(data, initial_cash) ==
    [phase |-> "loop", data |-> data, initial_cash |-> initial_cash, i |-> 0,
     cash |-> initial_cash, position |-> 0, trades |-> <<>>, snapshots |-> <<>>,
     total_fees |-> 0, peak_equity |-> initial_cash,
     rows |-> <<>>, decision |-> [action |-> "none"], before |-> [cash |-> initial_cash, position |-> 0]]

\* the BUY branch, taken when cash > 0 and price > 0
BuyBranch(b, bar, qty0) ==
    LET price == bar.close
        max_qty == FDiv(b.cash, price)
        qty == PyMin(qty0, max_qty)
        cost == FMul(qty, price)
        fee == FMul(cost, fee_rate)
    IN  IF qty > 0
        THEN [b EXCEPT !.cash = b.cash - (cost + fee),
                       !.position = b.position + qty,
                       !.total_fees = b.total_fees + fee,
                       !.trades = Append(b.trades, [ts |-> bar.ts, action |-> "BUY", price |-> price,
                                                    quantity |-> qty, fees |-> fee])]
        ELSE b

\* a faulty variant: the fee of a sale is charged but left out of total_fees
SellBranchFeeForgotten(b, bar) ==
    LET proceeds == FMul(b.position, bar.close)
        fee == FMul(proceeds, fee_rate)
    IN  [b EXCEPT !.cash = b.cash + (proceeds - fee),
                  !.trades = Append(b.trades, [ts |-> bar.ts, action |-> "SELL", price |-> bar.close,
                                               quantity |-> b.position, fees |-> fee]),
                  !.position = 0]

\* the SELL branch, taken when position > 0 and price > 0: sell all
SellBranch(b, bar) ==
    LET price == bar.close
        qty == b.position
        proceeds == FMul(qty, price)
        fee == FMul(proceeds, fee_rate)
    IN  [b EXCEPT !.cash = b.cash + (proceeds - fee),
                  !.total_fees = b.total_fees + fee,
                  !.trades = Append(b.trades, [ts |-> bar.ts, action |-> "SELL", price |-> price,
                                               quantity |-> qty, fees |-> fee]),
                  !.position = 0]

\* the trade, if any, that the decision leads to at this bar
Traded(b, bar, decision) ==
    IF decision.action = "BUY" /\ b.cash > 0 /\ bar.close > 0 THEN BuyBranch(b, bar, decision.quantity)
    ELSE IF decision.action = "SELL" /\ b.position > 0 /\ bar.close > 0 THEN SellBranch(b, bar)
    ELSE b

\* one pass of the loop over data: decide, trade, value, snapshot
LoopBody(b, rows) ==
    LET bar == b.data[b.i + 1]
        decision == decide(rows, b.cash)
        t == Traded(b, bar, decision)
        equity == t.cash + FMul(t.position, bar.close)
    IN  [t EXCEPT !.i = b.i + 1,
                  !.peak_equity = PyMax(b.peak_equity, equity),
                  !.snapshots = Append(b.snapshots, [ts |-> bar.ts, cash |-> t.cash,
                                                     position |-> t.position, equity |-> equity]),
                  !.rows = rows, !.decision = decision,
                  !.before = [cash |-> b.cash, position |-> b.position]]

\* the drawdown loop over the snapshots
RECURSIVE DrawdownLoop(_, _, _)
DrawdownLoop(snapshots, current_peak, max_drawdown) ==
    IF snapshots = <<>> THEN max_drawdown
    ELSE LET peak == PyMax(current_peak, snapshots[1].equity)
             drawdown == FDiv(peak - snapshots[1].equity, peak)
         IN  DrawdownLoop(Tail(snapshots), peak, PyMax(max_drawdown, drawdown))

\* what run returns after the loop
RunResult(b) ==
    LET final_equity == IF b.snapshots # <<>> THEN Last(b.snapshots).equity ELSE b.initial_cash
        buy_hold_shares == FDiv(b.initial_cash, b.data[1].close)
        buy_hold_final_value == FMul(buy_hold_shares, Last(b.data).close)
    IN  [final_cash |-> b.cash, final_equity |-> final_equity, trades |-> b.trades,
         snapshots |-> b.snapshots,
         summary |-> [bars |-> Len(b.data), trades |-> Len(b.trades)],
         max_drawdown |-> DrawdownLoop(b.snapshots, b.initial_cash, 0),
         strategy_return |-> FDiv(final_equity - b.initial_cash, b.initial_cash),
         buy_hold_return |-> FDiv(buy_hold_final_value - b.initial_cash, b.initial_cash),
         total_fees |-> b.total_fees]

\* most bars in the fetched range
MaxBars == 3

BarCloses == {Num(50), Num(100)}

InitialCash == {Num(50), Num(400)}

\* what fetch returns for the range of the backtest: bars in time order
BarSeries == UNION {{[k \in 1..n |-> [ts |-> k, close |-> c[k]]] : c \in [1..n -> BarCloses]} : n \in 0..MaxBars}

DecisionCloses == {Num(2), Num(5), Num(8)}

\* what fetch returns for the range decide asks for: no row, one row, or a first and a last row
DecisionRows == UNION {[1..n -> [close : DecisionCloses]] : n \in 0..2}

BacktestInit ==
    /\ bars = <<>>
    /\ call = NoCall
    /\ SigIdle
    /\ OptIdle
    /\ CacheIdle
    /\ AgentIdle
    /\ BacktestIdle
    /\ JobsIdle

\* run is called: the data is fetched, and without data the result is returned at once
Run(data, initial_cash) ==
    /\ backtest.phase = "idle"
    /\ backtest' = IF data = <<>>
                   THEN [phase |-> "done", data |-> data, initial_cash |-> initial_cash,
                         result |-> NoDataResult(initial_cash)]
                   ELSE LoopEntry(data, initial_cash)
    /\ UNCHANGED <<indVars, sigVars, optVars, cacheVars, agentVars, jobVars>>

\* the loop processes the next bar
ProcessBar(rows) ==
    /\ backtest.phase = "loop"
    /\ backtest.i < Len(backtest.data)
    /\ backtest' = LoopBody(backtest, rows)
    /\ UNCHANGED <<indVars, sigVars, optVars, cacheVars, agentVars, jobVars>>

\* the loop is over: the metrics are computed and the result is returned
Finish ==
    /\ backtest.phase = "loop"
    /\ backtest.i = Len(backtest.data)
    /\ backtest' = [phase |-> "done", data |-> backtest.data, initial_cash |-> backtest.initial_cash,
                    result |-> RunResult(backtest)]
    /\ UNCHANGED <<indVars, sigVars, optVars, cacheVars, agentVars, jobVars>>

BacktestNext ==
    \/ \E data \in BarSeries, initial_cash \in InitialCash : Run(data, initial_cash)
    \/ \E rows \in DecisionRows : ProcessBar(rows)
    \/ Finish

SpecBacktest == BacktestInit /\ [][BacktestNext]_vars

-----------------------------------------------------------------------------
(* Properties of the backtest *)

ResultKeys == {"final_cash", "final_equity", "trades", "snapshots", "summary", "max_drawdown", "strategy_return", "buy_hold_return", "total_fees"}

\* C22: whatever the input, a range without data included, the result of run
\* holds all of final_cash, final_equity, trades, snapshots, summary,
\* max_drawdown, strategy_return, buy_hold_return and total_fees.
C22_ResultHasEveryKey ==
    backtest.phase = "done" => ResultKeys \subseteq DOMAIN backtest.result

BarProcessed == backtest.phase = "loop" /\ backtest.i > 0

\* C23: a BUY or SELL decision of _llm_decide costs at most 5% of the supplied
\* cash at the latest close, and the quantity is 0 exactly when the action is
\* HOLD.
C23_QuantityWithinFivePercent ==
    BarProcessed /\ Len(backtest.rows) >= 2 =>
        LET d == backtest.decision
        IN  /\ d.action \in {"BUY", "SELL"} =>
                   FMul(d.quantity, Last(backtest.rows).close) <= FMul(Frac(5, 100), backtest.before.cash)
            /\ d.quantity = 0 <=> d.action = "HOLD"

\* C24: after any processed bar the cash is not negative.
C24_CashNeverNegative ==
    BarProcessed => backtest.cash >= 0

TradedAtLastBar ==
    /\ BarProcessed
    /\ backtest.trades # <<>>
    /\ Last(backtest.trades).ts = backtest.i

EquityAt(cash, position, price) == cash + FMul(position, price)

\* C25: after every processed bar the position is not negative, there is one
\* snapshot per processed bar, total_fees is the sum of the fees of the trades,
\* a SELL is recorded only from a positive position and leaves position 0, no
\* two SELLs follow each other, and a trade changes the equity at that bar's
\* price by minus its fee (up to one rounding unit of the products).
C25_LoopAccounting ==
    BarProcessed =>
        /\ backtest.position >= 0
        /\ Len(backtest.snapshots) = backtest.i
        /\ backtest.total_fees = SeqSum([k \in DOMAIN backtest.trades |-> backtest.trades[k].fees])
        /\ \A k \in DOMAIN backtest.trades :
               backtest.trades[k].action = "SELL" => k > 1 /\ backtest.trades[k - 1].action = "BUY"
        /\ TradedAtLastBar =>
               LET t == Last(backtest.trades)
                   before == EquityAt(backtest.before.cash, backtest.before.position, t.price)
                   after == EquityAt(backtest.cash, backtest.position, t.price)
               IN  /\ t.action = "SELL" => backtest.before.position > 0 /\ backtest.position = 0
                   /\ Abs((after - before) + t.fees) <= 1

\* C25 happens: a BUY and then a SELL were recorded, each with a fee
C25_Witness ==
    /\ BarProcessed
    /\ Len(backtest.trades) >= 2
    /\ Last(backtest.trades).action = "SELL"
    /\ Last(backtest.trades).fees > 0
    /\ backtest.trades[Len(backtest.trades) - 1].action = "BUY"
    /\ backtest.position = 0
    /\ Len(backtest.snapshots) = MaxBars

-----------------------------------------------------------------------------
(* BackgroundJobManager: start_backtest_job and cleanup_old_jobs run on the  *)
(* script thread, _run_backtest_job on one daemon thread per job; all of     *)
(* them share session_state["job_manager"]                                   *)

\* most jobs started
MaxJobs == 2

\* latest reading of the clock, in hours
MaxJobClock == 2

JobIds == 1..MaxJobs

MaxAgeHours == {0, 1}

\* progress values the callback reports before run raises
ProgressAtRaise == {5, 10, 45}

\* job_data as start_backtest_job builds it
job_data(created_at) == [status |-> "running", progress |-> 0, created_at |-> created_at, result |-> FALSE, error |-> FALSE]

\* a faulty variant: every old job is listed, whatever its status
OldJobsAnyStatus(jobs, cutoff_time) ==
    {j \in DOMAIN jobs : jobs[j].created_at < cutoff_time}

\* the first loop of cleanup_old_jobs: completed or failed jobs created before the cutoff
OldFinishedJobs(jobs, cutoff_time) ==
    {j \in DOMAIN jobs : jobs[j].status \in {"completed", "failed"} /\ jobs[j].created_at < cutoff_time}

JobsInit ==
    /\ bars = <<>>
    /\ call = NoCall
    /\ SigIdle
    /\ OptIdle
    /\ CacheIdle
    /\ AgentIdle
    /\ BacktestIdle
    /\ JobsIdle

JobsFrame == UNCHANGED <<indVars, sigVars, optVars, cacheVars, agentVars, btVars>>

\* start_backtest_job: a fresh id, the job entered in jobs and active_jobs, its thread started
StartBacktestJob ==
    LET job_id == Cardinality(DOMAIN job_manager.pc) + 1
    IN  /\ job_id <= MaxJobs
        /\ job_manager.cleanup = "idle"
        /\ job_manager' = [job_manager EXCEPT
               !.jobs = (job_id :> job_data(job_manager.now)) @@ job_manager.jobs,
               !.active_jobs = job_manager.active_jobs \cup {job_id},
               !.pc = (job_id :> "begin") @@ job_manager.pc]
        /\ JobsFrame

\* the thread looks its job up; a missing job raises KeyError before job is bound,
\* the handler then fails on the unbound name and only the finally clause runs
WorkerBegin(job_id) ==
    /\ job_id \in DOMAIN job_manager.pc
    /\ job_manager.pc[job_id] = "begin"
    /\ job_manager' =
           IF job_id \in DOMAIN job_manager.jobs
           THEN [job_manager EXCEPT !.jobs[job_id].progress = 5,
                                    !.jobs[job_id].status = "running",
                                    !.pc[job_id] = "run"]
           ELSE [job_manager EXCEPT !.pc[job_id] = "finally"]
    /\ JobsFrame

\* backtest_svc.run returns: its last progress report was 100
RunReturns(job_id) ==
    /\ job_id \in DOMAIN job_manager.pc
    /\ job_manager.pc[job_id] = "run"
    /\ job_manager' = [job_manager EXCEPT !.jobs[job_id].progress = 100, !.pc[job_id] = "returned"]
    /\ JobsFrame

\* backtest_svc.run raises after some progress reports
RunRaises(job_id, progress) ==
    /\ job_id \in DOMAIN job_manager.pc
    /\ job_manager.pc[job_id] = "run"
    /\ job_manager' = [job_manager EXCEPT !.jobs[job_id].progress = progress, !.pc[job_id] = "raised"]
    /\ JobsFrame

\* status, result and progress after run returned
MarkCompleted(job_id) ==
    /\ job_id \in DOMAIN job_manager.pc
    /\ job_manager.pc[job_id] = "returned"
    /\ job_manager' = [job_manager EXCEPT !.jobs[job_id].status = "completed",
                                          !.jobs[job_id].result = TRUE,
                                          !.jobs[job_id].progress = 100,
                                          !.pc[job_id] = "finally"]
    /\ JobsFrame

\* the handler's first assignment: status "failed", and the error
MarkFailed(job_id) ==
    /\ job_id \in DOMAIN job_manager.pc
    /\ job_manager.pc[job_id] = "raised"
    /\ job_manager' = [job_manager EXCEPT !.jobs[job_id].status = "failed",
                                          !.jobs[job_id].error = TRUE,
                                          !.pc[job_id] = "failed"]
    /\ JobsFrame

\* the handler's last assignment: progress 100
FailedProgress(job_id) ==
    /\ job_id \in DOMAIN job_manager.pc
    /\ job_manager.pc[job_id] = "failed"
    /\ job_manager' = [job_manager EXCEPT !.jobs[job_id].progress = 100, !.pc[job_id] = "finally"]
    /\ JobsFrame

\* the finally clause: the job leaves active_jobs, the thread ends
LeaveActiveJobs(job_id) ==
    /\ job_id \in DOMAIN job_manager.pc
    /\ job_manager.pc[job_id] = "finally"
    /\ job_manager' = [job_manager EXCEPT !.active_jobs = job_manager.active_jobs \ {job_id},
                                          !.pc[job_id] = "ended"]
    /\ JobsFrame

\* the steps of the thread of one job
Worker(job_id) ==
    \/ WorkerBegin(job_id)
    \/ RunReturns(job_id)
    \/ \E progress \in ProgressAtRaise : RunRaises(job_id, progress)
    \/ MarkCompleted(job_id)
    \/ MarkFailed(job_id)
    \/ FailedProgress(job_id)
    \/ LeaveActiveJobs(job_id)

\* cleanup_old_jobs, first loop: the jobs to remove are listed
CleanupList(max_age_hours) ==
    /\ job_manager.cleanup = "idle"
    /\ job_manager' = [job_manager EXCEPT
               !.cleanup = "listed",
               !.to_remove = OldFinishedJobs(job_manager.jobs, job_manager.now - max_age_hours)]
    /\ JobsFrame

\* cleanup_old_jobs, second loop: the listed jobs are deleted
CleanupDelete ==
    /\ job_manager.cleanup = "listed"
    /\ job_manager' = [job_manager EXCEPT
               !.cleanup = "idle",
               !.to_remove = {},
               !.jobs = [j \in DOMAIN job_manager.jobs \ job_manager.to_remove |-> job_manager.jobs[j]],
               !.deleted_running = job_manager.deleted_running
                   \/ \E j \in job_manager.to_remove : job_manager.jobs[j].status = "running"]
    /\ JobsFrame

\* an hour passes
JobTick ==
    /\ job_manager.now < MaxJobClock
    /\ job_manager' = [job_manager EXCEPT !.now = job_manager.now + 1]
    /\ JobsFrame

JobsNext ==
    \/ StartBacktestJob
    \/ \E job_id \in JobIds : WorkerBegin(job_id)
    \/ \E job_id \in JobIds : RunReturns(job_id)
    \/ \E job_id \in JobIds, progress \in ProgressAtRaise : RunRaises(job_id, progress)
    \/ \E job_id \in JobIds : MarkCompleted(job_id)
    \/ \E job_id \in JobIds : MarkFailed(job_id)
    \/ \E job_id \in JobIds : FailedProgress(job_id)
    \/ \E job_id \in JobIds : LeaveActiveJobs(job_id)
    \/ \E max_age_hours \in MaxAgeHours : CleanupList(max_age_hours)
    \/ CleanupDelete
    \/ JobTick

SpecJobs == JobsInit /\ [][JobsNext]_vars

\* a started thread keeps being scheduled until it ends
SpecJobsFair == SpecJobs /\ \A job_id \in JobIds : WF_vars(Worker(job_id))

-----------------------------------------------------------------------------
(* Properties of the job manager *)

JobSettled(job_id) ==
    /\ job_manager.jobs[job_id].status \in {"completed", "failed"}
    /\ job_manager.jobs[job_id].progress = 100

====
